---- MODULE Spec2Model ----
(***************************************************************************)
(* Offer module of kamilfityka/offer-generator: the Offer Service (store,  *)
(* status workflow, upload, generation pipeline, CRM push, CRM mirror) and *)
(* the Next.js client that drives it (detail page, create form, list page, *)
(* redux slice).                                                           *)
(*                                                                         *)
(* Text values are sequences of one-character strings, so that endsWith    *)
(* and trim are computed and not assumed.  NULL is the one-element         *)
(* sequence <<"null">>, which no text value equals.                        *)
(***************************************************************************)
EXTENDS Integers, Sequences, FiniteSets, TLC

VARIABLES
    offers,          \* Offer Store: id -> offer record (domain = existing offers)
    nextId,          \* index of the next id the store hands out (ids are never reused)
    files,           \* stored description files: path -> content
    crm_companies,   \* CRM mirror table: set of mirrored company rows
    raynet,          \* the external CRM: raynet_id -> company name
    created,         \* history: id -> snapshot fields the offer was created with
    apiLast,         \* the last request a direct API caller made and its outcome
    variant,         \* which detail page is built in: "basic" or "crm" (with the CRM push)
    route,           \* the page that shows: "create", "detail" or "offers"
    offerId,         \* detail page: params.id
    mounted,         \* the mount effect of the detail page or the list page has run
    offer,           \* detail page: useState offer (NoBody is null)
    isLoading,       \* detail page: useState isLoading
    isGenerating,    \* detail page: useState isGenerating
    isUploading,     \* detail page: useState isUploading
    isSendingToCrm,  \* detail page: useState isSendingToCrm
    calls,           \* detail page: the calls in flight, in the order they were made
    notified,        \* the toast the last client step raised ("none" when it raised none)
    form,            \* create form: its text useStates
    descriptionFile, \* create form: useState descriptionFile (NoFile is null)
    isSubmitting,    \* create form: useState isSubmitting
    now,             \* the clock of the Offer Service
    crm_contacts,    \* CRM mirror table: set of mirrored contact rows
    raynetPeople,    \* the external CRM: raynet_id of a contact -> company and first name
    list,            \* list page: useState offers, in display order
    listLoading,     \* list page: useState isLoading
    companies,       \* create form: useState companies
    contacts,        \* create form: useState contacts
    lookups,         \* create form: the CRM lookups in flight
    formMounted,     \* the mount effect of the create form has run
    cap,             \* how many calls the pages of this behaviour get in flight
    offersSlice      \* the redux slice "offers": its OffersState and the action it took last

service == <<offers, nextId, files, crm_companies, raynet, created, apiLast>>
page == <<variant, route, offerId, mounted, offer, isLoading, isGenerating, isUploading,
          isSendingToCrm, calls, notified>>
createForm == <<form, descriptionFile, isSubmitting>>
crmSide == <<crm_contacts, raynetPeople>>
listPage == <<list, listLoading>>
lookup == <<companies, contacts, lookups, formMounted>>
still == <<cap, offersSlice>>
beyond == <<now, still, crmSide, listPage, lookup>>
vars == <<service, page, createForm, beyond>>

----------------------------------------------------------------------------
(* Bounds *)

MaxOffers == 1       \* offers the store holds at a time
MaxIds == 2          \* ids the store hands out in one behaviour
MaxCalls == 1        \* calls one page has in flight at a time
MaxListed == 2       \* offers in the store when the list page opens

----------------------------------------------------------------------------
(* Values *)

NULL == <<"null">>

Empty == <<>>
Blank == <<" ">>
Acme  == <<"A", "c">>
AcmeSp == <<" ", "A", "c">>
Beta  == <<"B">>
Q1    == <<"Q", "1">>
Nip1  == <<"7">>
R1    == <<"r", "1">>
P1    == <<"p", "1">>
Ann   == <<"A", "n">>
Bo    == <<"B", "o">>

OfferIdSeq == <<"o1", "o2", "o3", "o4">>
UnknownId == "zz"

STATUSES == {"draft", "generated", "sent", "accepted", "expired"}
StatusStrings == STATUSES \cup {"archived"}

SnapshotFields == {"company_name", "company_nip", "company_address",
                   "contact_first_name", "contact_last_name",
                   "contact_phone", "contact_email"}

Snapshot(o) == [f \in SnapshotFields |-> o[f]]

\* file.name.endsWith(suffix)
EndsWith(s, suffix) ==
    /\ Len(s) >= Len(suffix)
    /\ SubSeq(s, Len(s) - Len(suffix) + 1, Len(s)) = suffix

DotTxt == <<".", "t", "x", "t">>
DotMd  == <<".", "m", "d">>

FileNames == { <<"d", ".", "p", "d", "f">>,
               <<"d", ".", "m", "d">>,
               <<"n", ".", "t", "x", "t">>,
               <<"m", "d">>,
               <<"d", ".", "m", "d", "x">> }

\* a File: its name and its content
File(name, content) == [name |-> name, content |-> content]

\* the files the user of a page picks
PageFiles == {File(n, "v1") : n \in FileNames}

\* the files a direct caller uploads
ApiFiles == { File(<<"d", ".", "p", "d", "f">>, "v1"), File(<<"d", ".", "m", "d">>, "v1") }

\* the extension rule of the upload
AllowedExtension(name) == EndsWith(name, DotTxt) \/ EndsWith(name, DotMd)

----------------------------------------------------------------------------
(* Offer Service *)

Result(st, fl, e, r) == [offers |-> st, files |-> fl, err |-> e, ret |-> r]

NoBody == [none |-> TRUE]

\* the payloads a caller may post to POST /offers
Payload(name, nip, title, rcid) ==
    [company_name |-> name, company_nip |-> nip, company_address |-> NULL,
     contact_first_name |-> NULL, contact_last_name |-> NULL,
     contact_phone |-> NULL, contact_email |-> NULL,
     raynet_company_id |-> rcid, raynet_contact_id |-> NULL,
     title |-> title, valid_until |-> NULL]

Payloads == { Payload(Acme, Nip1, Q1, R1),
              Payload(AcmeSp, NULL, Q1, NULL),
              Payload(Blank, NULL, Q1, NULL),
              Payload(Empty, NULL, Q1, NULL),
              Payload(Acme, NULL, Empty, NULL) }

NewOffer(id, p) ==
    [id |-> id,
     company_name |-> p.company_name,
     company_nip |-> p.company_nip,
     company_address |-> p.company_address,
     contact_first_name |-> p.contact_first_name,
     contact_last_name |-> p.contact_last_name,
     contact_phone |-> p.contact_phone,
     contact_email |-> p.contact_email,
     raynet_company_id |-> p.raynet_company_id,
     raynet_contact_id |-> p.raynet_contact_id,
     title |-> p.title,
     valid_until |-> p.valid_until,
     updated_at |-> now,
     description_file_path |-> NULL,
     status |-> "draft",
     document_path |-> NULL,
     ai_generated_content |-> NULL,
     raynet_opportunity_id |-> NULL]

Put(st, id, o) == [k \in DOMAIN st \cup {id} |-> IF k = id THEN o ELSE st[k]]

\* createOffer(payload)
createOffer(st, fl, nid, p) ==
    IF Len(p.company_name) = 0 \/ Len(p.title) = 0
    THEN Result(st, fl, "ValidationError", NoBody)
    ELSE LET o == NewOffer(OfferIdSeq[nid], p)
         IN Result(Put(st, o.id, o), fl, "ok", o)

\* getOffer(id)
getOffer(st, fl, id) ==
    IF id \notin DOMAIN st
    THEN Result(st, fl, "NotFound", NoBody)
    ELSE Result(st, fl, "ok", st[id])

\* the orders in which a service may return the records of a table
RECURSIVE Orders(_)
Orders(S) ==
    IF S = {} THEN { << >> }
    ELSE UNION { { <<x>> \o q : q \in Orders(S \ {x}) } : x \in S }

\* listOffers(): all offers, in no particular order
listOffers(st) == Orders({st[id] : id \in DOMAIN st})

\* the manual edges of the status graph
ManualTransitions == { <<"generated", "sent">>,
                       <<"sent", "accepted">>,
                       <<"sent", "expired">> }

\* updateStatus that trusts the caller to offer only valid next states
updateStatusTrustsCaller(st, fl, id, target) ==
    IF id \notin DOMAIN st
    THEN Result(st, fl, "NotFound", NoBody)
    ELSE LET o == [st[id] EXCEPT !.status = target, !.updated_at = now]
         IN Result(Put(st, id, o), fl, "ok", o)

\* updateStatus(id, status)
updateStatus(st, fl, id, target) ==
    IF id \notin DOMAIN st
    THEN Result(st, fl, "NotFound", NoBody)
    ELSE IF <<st[id].status, target>> \notin ManualTransitions
    THEN Result(st, fl, "InvalidTransition", NoBody)
    ELSE LET o == [st[id] EXCEPT !.status = target, !.updated_at = now]
         IN Result(Put(st, id, o), fl, "ok", o)

\* the storage path of an offer's description file
DescriptionPath(id) == <<"uploads/offers/offer_", id, ".txt">>

\* uploadDescription that stores the file under the name it was uploaded with
uploadDescriptionUnderFileName(st, fl, id, file) ==
    IF id \notin DOMAIN st
    THEN Result(st, fl, "NotFound", NoBody)
    ELSE IF ~AllowedExtension(file.name)
    THEN Result(st, fl, "ValidationError", NoBody)
    ELSE LET path == <<"uploads/offers/offer_", id>> \o file.name
             o == [st[id] EXCEPT !.description_file_path = path, !.updated_at = now]
         IN Result(Put(st, id, o),
                   [k \in DOMAIN fl \cup {path} |-> IF k = path THEN file.content ELSE fl[k]],
                   "ok", o)

\* uploadDescription(offerId, file)
uploadDescription(st, fl, id, file) ==
    IF id \notin DOMAIN st
    THEN Result(st, fl, "NotFound", NoBody)
    ELSE IF ~AllowedExtension(file.name)
    THEN Result(st, fl, "ValidationError", NoBody)
    ELSE LET path == DescriptionPath(id)
             o == [st[id] EXCEPT !.description_file_path = path, !.updated_at = now]
         IN Result(Put(st, id, o),
                   [k \in DOMAIN fl \cup {path} |-> IF k = path THEN file.content ELSE fl[k]],
                   "ok", o)

\* deleteOffer that answers ok and keeps the record
deleteOfferKeepsRecord(st, fl, id) ==
    IF id \notin DOMAIN st
    THEN Result(st, fl, "NotFound", NoBody)
    ELSE Result(st, fl, "ok", NoBody)

\* deleteOffer(id)
deleteOffer(st, fl, id) ==
    IF id \notin DOMAIN st
    THEN Result(st, fl, "NotFound", NoBody)
    ELSE Result([k \in DOMAIN st \ {id} |-> st[k]],
                [k \in DOMAIN fl \ {DescriptionPath(id)} |-> fl[k]],
                "ok", NoBody)

----------------------------------------------------------------------------
(* Generation pipeline *)

PipelineSteps == 1..4   \* 1 read file, 2 AI call, 3 template render, 4 PDF conversion
NoFailure == 0

StepError(k) ==
    CASE k = 1 -> "ReadError"
      [] k = 2 -> "UpstreamServiceError"
      [] k = 3 -> "RenderError"
      [] k = 4 -> "UpstreamServiceError"

\* the intermediate result of the pipeline after step k
StepResult(o, fl, k) ==
    CASE k = 1 -> <<"text", fl[o.description_file_path]>>
      [] k = 2 -> <<"fragment", o.id>>
      [] k = 3 -> <<"html", o.id>>
      [] k = 4 -> <<"documents/offer_", o.id, ".pdf">>

\* generatePdf that marks the offer generated before it runs the pipeline
generatePdfMarksFirst(st, fl, id, failAt) ==
    IF id \notin DOMAIN st
    THEN Result(st, fl, "NotFound", NoBody)
    ELSE IF st[id].description_file_path = NULL
    THEN Result(st, fl, "PreconditionFailed", NoBody)
    ELSE IF failAt \in PipelineSteps
    THEN Result(Put(st, id, [st[id] EXCEPT !.status = "generated", !.updated_at = now]),
                fl, StepError(failAt), NoBody)
    ELSE LET o == [st[id] EXCEPT !.ai_generated_content = StepResult(st[id], fl, 2),
                                 !.document_path = StepResult(st[id], fl, 4),
                                 !.status = "generated",
                                 !.updated_at = now]
         IN Result(Put(st, id, o), fl, "ok", o)

\* generatePdf(offerId); failAt names the step that fails, NoFailure if none does
generatePdf(st, fl, id, failAt) ==
    IF id \notin DOMAIN st
    THEN Result(st, fl, "NotFound", NoBody)
    ELSE IF st[id].description_file_path = NULL
    THEN Result(st, fl, "PreconditionFailed", NoBody)
    ELSE IF failAt \in PipelineSteps
    THEN Result(st, fl, StepError(failAt), NoBody)
    ELSE LET o == [st[id] EXCEPT !.ai_generated_content = StepResult(st[id], fl, 2),
                                 !.document_path = StepResult(st[id], fl, 4),
                                 !.status = "generated",
                                 !.updated_at = now]
         IN Result(Put(st, id, o), fl, "ok", o)

----------------------------------------------------------------------------
(* CRM push and CRM mirror *)

OpportunityId(id) == <<"opportunity_", id>>

\* sendToCrm(offerId, {estimatedValue?}); crmUp tells whether the external CRM answers
sendToCrm(st, fl, id, crmUp) ==
    IF id \notin DOMAIN st
    THEN Result(st, fl, "NotFound", NoBody)
    ELSE IF \/ st[id].status # "generated"
            \/ st[id].document_path = NULL
            \/ st[id].raynet_company_id = NULL
    THEN Result(st, fl, "PreconditionFailed", NoBody)
    ELSE IF ~crmUp
    THEN Result(st, fl, "UpstreamServiceError", NoBody)
    ELSE LET o == [st[id] EXCEPT !.raynet_opportunity_id = OpportunityId(id),
                                 !.status = "sent",
                                 !.updated_at = now]
         IN Result(Put(st, id, o), fl, "ok", o)

CompanyRow(rid, name) ==
    [id |-> <<"company_">> \o rid, raynet_id |-> rid, name |-> name,
     nip |-> NULL, address |-> NULL]

\* sync() that inserts a row for every CRM company
syncInserts(mirror, crm) ==
    mirror \cup {CompanyRow(rid, crm[rid]) : rid \in DOMAIN crm}

\* sync(): upsert of every CRM company by raynet_id
sync(mirror, crm) ==
    {row \in mirror : row.raynet_id \notin DOMAIN crm}
        \cup {CompanyRow(rid, crm[rid]) : rid \in DOMAIN crm}

ContactRow(rid, p) ==
    [id |-> <<"contact_">> \o rid, raynet_id |-> rid,
     company_id |-> <<"company_">> \o p.company, first_name |-> p.first_name,
     last_name |-> NULL, phone |-> NULL, email |-> NULL]

\* sync(): upsert of every CRM contact by raynet_id
syncContacts(mirror, people) ==
    {row \in mirror : row.raynet_id \notin DOMAIN people}
        \cup {ContactRow(rid, people[rid]) : rid \in DOMAIN people}

\* listCompanies()
listCompanies(mirror) == Orders(mirror)

\* listContacts(companyId)
listContacts(mirror, companyId) == Orders({row \in mirror : row.company_id = companyId})

----------------------------------------------------------------------------
(* Direct API callers *)

EmptyForm ==
    [f \in {"selectedCompanyId", "selectedContactId", "raynetCompanyId", "raynetContactId",
             "title", "companyName", "companyNip", "companyAddress", "contactFirstName",
             "contactLastName", "contactPhone", "contactEmail", "validUntil"} |-> Empty]

NoFile == [none |-> TRUE]

\* the create form as useState initialises it
NoCreateForm ==
    /\ form = EmptyForm
    /\ descriptionFile = NoFile
    /\ isSubmitting = FALSE

\* no page is open
NoPage ==
    /\ NoCreateForm
    /\ variant = "basic"
    /\ route = "offers"
    /\ offerId = UnknownId
    /\ mounted = FALSE
    /\ offer = NoBody
    /\ isLoading = TRUE
    /\ isGenerating = FALSE
    /\ isUploading = FALSE
    /\ isSendingToCrm = FALSE
    /\ calls = << >>
    /\ notified = "none"

\* the slice as createSlice builds it; null is NoBody
initialState == [offers |-> << >>, currentOffer |-> NoBody, isLoading |-> FALSE,
                 error |-> NULL]

\* the clock stands, no list page and no CRM lookup is in play
Quiet ==
    /\ now = 1
    /\ cap = MaxCalls
    /\ offersSlice = [state |-> initialState, action |-> [type |-> "@@INIT"]]
    /\ crm_contacts = {}
    /\ raynetPeople = [r \in {P1} |-> [company |-> R1, first_name |-> Ann]]
    /\ list = << >>
    /\ listLoading = TRUE
    /\ companies = << >>
    /\ contacts = << >>
    /\ lookups = << >>
    /\ formMounted = TRUE

InitService ==
    /\ Quiet
    /\ offers = << >>
    /\ nextId = 1
    /\ files = << >>
    /\ crm_companies = {}
    /\ raynet = [r \in {R1} |-> Acme]
    /\ created = << >>
    /\ apiLast = [kind |-> "none", id |-> UnknownId, arg |-> NULL, err |-> "ok"]
    /\ NoPage

NoLog == [kind |-> "off", id |-> UnknownId, arg |-> NULL, err |-> "ok"]

\* the request log of the direct caller; a behaviour that starts with the log off keeps it off
Log(kind, id, arg, err) ==
    IF apiLast = NoLog THEN NoLog ELSE [kind |-> kind, id |-> id, arg |-> arg, err |-> err]

Apply(r, kind, id, arg) ==
    /\ offers' = r.offers
    /\ files' = r.files
    /\ apiLast' = Log(kind, id, arg, r.err)

CallIds == {OfferIdSeq[i] : i \in 1..MaxIds} \cup {UnknownId}

\* the store takes one more offer and has an id left for it
CanCreate == nextId <= MaxIds /\ Cardinality(DOMAIN offers) < MaxOffers

\* POST /offers with payload p
ApiCreateOfferPayload(p) ==
    /\ CanCreate
    /\ LET r == createOffer(offers, files, nextId, p)
           id == OfferIdSeq[nextId]
       IN /\ Apply(r, "create", IF r.err = "ok" THEN id ELSE UnknownId, NULL)
          /\ nextId' = IF r.err = "ok" THEN nextId + 1 ELSE nextId
          /\ created' = IF r.err = "ok"
                        THEN [k \in DOMAIN created \cup {id} |->
                                 IF k = id THEN Snapshot(p) ELSE created[k]]
                        ELSE created
    /\ UNCHANGED <<beyond, crm_companies, raynet, page, createForm>>

ApiCreateOffer == \E p \in Payloads : ApiCreateOfferPayload(p)

ApiUpdateStatus ==
    \E id \in CallIds, target \in StatusStrings :
        /\ Apply(updateStatus(offers, files, id, target), "status", id, <<target>>)
        /\ UNCHANGED <<beyond, nextId, crm_companies, raynet, created, page, createForm>>

\* POST /offers/{id}/upload-description with the given file
ApiUploadDescriptionFile(id, file) ==
    /\ Apply(uploadDescription(offers, files, id, file), "upload", id, file.name)
    /\ UNCHANGED <<beyond, nextId, crm_companies, raynet, created, page, createForm>>

ApiUploadDescription ==
    \E id \in CallIds, file \in ApiFiles : ApiUploadDescriptionFile(id, file)

\* the files a caller uploads in place of the description an offer has
Reuploads == { File(<<"n", ".", "t", "x", "t">>, "v2") }

\* one more upload for an offer that has a description file
ApiReuploadDescription ==
    \E id \in DOMAIN offers, file \in Reuploads :
        /\ offers[id].description_file_path # NULL
        /\ ApiUploadDescriptionFile(id, file)

ApiDeleteOffer ==
    \E id \in CallIds :
        /\ Apply(deleteOffer(offers, files, id), "delete", id, NULL)
        /\ UNCHANGED <<beyond, nextId, crm_companies, raynet, created, page, createForm>>

ApiGeneratePdf ==
    \E id \in CallIds, failAt \in PipelineSteps \cup {NoFailure} :
        /\ Apply(generatePdf(offers, files, id, failAt), "generate", id, NULL)
        /\ UNCHANGED <<beyond, nextId, crm_companies, raynet, created, page, createForm>>

\* GET /offers/{id}
ApiGetOffer ==
    \E id \in CallIds :
        /\ Apply(getOffer(offers, files, id), "get", id, NULL)
        /\ UNCHANGED <<beyond, nextId, crm_companies, raynet, created, page, createForm>>

\* GET /offers; the log keeps the ids of the records returned
ApiGetOffers ==
    \E data \in listOffers(offers) :
        /\ Apply(Result(offers, files, "ok", data), "list", UnknownId,
                 [k \in 1..Len(data) |-> data[k].id])
        /\ UNCHANGED <<beyond, nextId, crm_companies, raynet, created, page, createForm>>

\* a send-to-crm that also writes the offer's company into the mirror
ApiSendToCrmUpsertsCompany ==
    \E id \in CallIds, crmUp \in BOOLEAN :
        /\ Apply(sendToCrm(offers, files, id, crmUp), "send", id, NULL)
        /\ crm_companies' =
               IF sendToCrm(offers, files, id, crmUp).err = "ok"
               THEN sync(crm_companies,
                         [r \in {offers[id].raynet_company_id} |-> offers[id].company_name])
               ELSE crm_companies
        /\ UNCHANGED <<beyond, nextId, raynet, created, page, createForm>>

ApiSendToCrm ==
    \E id \in CallIds, crmUp \in BOOLEAN :
        /\ Apply(sendToCrm(offers, files, id, crmUp), "send", id, NULL)
        /\ UNCHANGED <<beyond, nextId, crm_companies, raynet, created, page, createForm>>

\* a sync that also refreshes the offers linked to a synced company
ApiSyncCrmRefreshesOffers ==
    /\ crm_companies' = sync(crm_companies, raynet)
    /\ crm_contacts' = syncContacts(crm_contacts, raynetPeople)
    /\ apiLast' = Log("sync", UnknownId, NULL, "ok")
    /\ offers' = [id \in DOMAIN offers |->
                     IF offers[id].raynet_company_id \in DOMAIN raynet
                     THEN [offers[id] EXCEPT !.company_name = raynet[offers[id].raynet_company_id]]
                     ELSE offers[id]]
    /\ UNCHANGED <<nextId, files, raynet, created, page, createForm,
                   now, still, raynetPeople, listPage, lookup>>

\* POST /crm/sync
ApiSyncCrm ==
    /\ crm_companies' = sync(crm_companies, raynet)
    /\ crm_contacts' = syncContacts(crm_contacts, raynetPeople)
    /\ apiLast' = Log("sync", UnknownId, NULL, "ok")
    /\ UNCHANGED <<offers, nextId, files, raynet, created, page, createForm,
                   now, still, raynetPeople, listPage, lookup>>

\* somebody edits a company in the external CRM
RaynetEdit ==
    \E rid \in DOMAIN raynet, name \in {Acme, Beta} :
        /\ raynet[rid] # name
        /\ raynet' = [raynet EXCEPT ![rid] = name]
        /\ UNCHANGED <<beyond, offers, nextId, files, crm_companies, created, apiLast, page, createForm>>

\* somebody edits a contact in the external CRM
RaynetEditContact ==
    \E rid \in DOMAIN raynetPeople, name \in {Ann, Bo} :
        /\ raynetPeople[rid].first_name # name
        /\ raynetPeople' = [raynetPeople EXCEPT ![rid].first_name = name]
        /\ UNCHANGED <<service, page, createForm, now, still, crm_contacts, listPage, lookup>>

NextService ==
    \/ ApiCreateOffer
    \/ ApiUpdateStatus
    \/ ApiUploadDescription
    \/ ApiGeneratePdf
    \/ ApiSendToCrm
    \/ ApiDeleteOffer
    \/ ApiGetOffer
    \/ ApiGetOffers

\* the Offer Service driven call by call, every outcome logged
SpecService == InitService /\ [][NextService]_vars

InitSnapshot ==
    /\ Quiet
    /\ offers = << >>
    /\ nextId = 1
    /\ files = << >>
    /\ crm_companies = {}
    /\ raynet = [r \in {R1} |-> Acme]
    /\ created = << >>
    /\ apiLast = NoLog
    /\ NoPage

NextSnapshot ==
    \/ NextService
    \/ ApiSyncCrm
    \/ RaynetEdit
    \/ RaynetEditContact

\* the Offer Service next to a CRM mirror that is edited and synced
SpecSnapshot == InitSnapshot /\ [][NextSnapshot]_vars

----------------------------------------------------------------------------
(* Offer detail page *)

STATUS_LABELS == [draft |-> "Robocza", generated |-> "Wygenerowana", sent |-> "Wyslana",
                  accepted |-> "Zaakceptowana", expired |-> "Wygasla"]

STATUS_TRANSITIONS == [draft |-> {"generated"}, generated |-> {"sent"},
                       sent |-> {"accepted", "expired"},
                       accepted |-> {}, expired |-> {}]

\* statusInfo that shows an unknown status as it comes
statusInfoShowsRaw(o) ==
    IF o.status \in DOMAIN STATUS_LABELS THEN STATUS_LABELS[o.status] ELSE o.status

\* STATUS_LABELS[offer.status] || STATUS_LABELS.draft
statusInfo(o) ==
    IF o.status \in DOMAIN STATUS_LABELS THEN STATUS_LABELS[o.status] ELSE STATUS_LABELS.draft

\* STATUS_TRANSITIONS[offer.status] || []
nextStatuses(o) ==
    IF o.status \in DOMAIN STATUS_TRANSITIONS THEN STATUS_TRANSITIONS[o.status] ELSE {}

\* the status buttons without the filter on "generated"
StatusButtonsUnfiltered(v, o) ==
    IF v = "basic"
    THEN nextStatuses(o)
    ELSE IF o.status = "sent" THEN {"accepted", "expired"} ELSE {}

\* the targets of the manual status buttons the page renders for offer o
StatusButtons(v, o) ==
    IF v = "basic"
    THEN {t \in nextStatuses(o) : t # "generated"}
    ELSE IF o.status = "sent" THEN {"accepted", "expired"} ELSE {}

\* canSendToCrm that does not look at the CRM company id
canSendToCrmUnlinked(o) ==
    /\ o.status = "generated"
    /\ o.document_path # NULL

canSendToCrm(o) ==
    /\ o.status = "generated"
    /\ o.document_path # NULL
    /\ o.raynet_company_id # NULL

\* the page renders its controls: not the spinner, not null
Rendered == route = "detail" /\ ~isLoading /\ offer # NoBody

\* the generate button disabled only while generating
GenerateEnabledWhileIdle == Rendered /\ ~isGenerating

\* disabled={isGenerating || !offer.description_file_path}
GenerateEnabled == Rendered /\ ~(isGenerating \/ offer.description_file_path = NULL)
UploadEnabled == Rendered /\ ~isUploading
SendToCrmEnabled == Rendered /\ variant = "crm" /\ canSendToCrm(offer) /\ ~isSendingToCrm

Call(kind, id, arg) ==
    [kind |-> kind, id |-> id, arg |-> arg, phase |-> "req", err |-> "ok", ret |-> NoBody]

Remove(q, i) == SubSeq(q, 1, i - 1) \o SubSeq(q, i + 1, Len(q))

\* fetchOffer up to its await: setIsLoading(true), GET /offers/{id}
fetchOfferStart(q) ==
    /\ isLoading' = TRUE
    /\ calls' = Append(q, Call("fetch", offerId, NULL))

\* useEffect(() => { if (offerId) fetchOffer(); })
Mount ==
    /\ route = "detail"
    /\ ~mounted
    /\ mounted' = TRUE
    /\ fetchOfferStart(calls)
    /\ notified' = "none"
    /\ UNCHANGED <<beyond, service, createForm, variant, offerId, route, offer, isGenerating, isUploading, isSendingToCrm>>

\* fetchOffer after its await; router.push("/offers") in the catch block opens the
\* list page, whose mount effect has not run yet (unless that page is open already)
fetchOfferResolve ==
    \E i \in 1..Len(calls) :
        /\ calls[i].kind = "fetch" /\ calls[i].phase = "resp"
        /\ calls' = Remove(calls, i)
        /\ IF calls[i].err = "ok"
           THEN /\ offer' = calls[i].ret
                /\ notified' = "none"
                /\ UNCHANGED <<route, mounted>>
           ELSE /\ notified' = "error"
                /\ route' = "offers"
                /\ mounted' = IF route = "offers" THEN mounted ELSE FALSE
                /\ UNCHANGED offer
        /\ isLoading' = FALSE
        /\ UNCHANGED <<beyond, service, createForm, variant, offerId, isGenerating, isUploading, isSendingToCrm>>

\* handleGeneratePdf up to its await
handleGeneratePdf ==
    /\ GenerateEnabled
    /\ Len(calls) < cap
    /\ isGenerating' = TRUE
    /\ calls' = Append(calls, Call("generate", offer.id, NULL))
    /\ notified' = "none"
    /\ UNCHANGED <<beyond, service, createForm, variant, offerId, route, mounted, offer, isLoading, isUploading, isSendingToCrm>>

\* handleGeneratePdf with setOffer(updated) moved out of the try block
handleGeneratePdfResolveAlwaysSets ==
    \E i \in 1..Len(calls) :
        /\ calls[i].kind = "generate" /\ calls[i].phase = "resp"
        /\ calls' = Remove(calls, i)
        /\ offer' = calls[i].ret
        /\ notified' = IF calls[i].err = "ok" THEN "success" ELSE "error"
        /\ isGenerating' = FALSE
        /\ UNCHANGED <<beyond, service, createForm, variant, offerId, route, mounted, isLoading,
                       isUploading, isSendingToCrm>>

\* handleGeneratePdf that forgets setOffer(updated)
handleGeneratePdfResolveKeepsOffer ==
    \E i \in 1..Len(calls) :
        /\ calls[i].kind = "generate" /\ calls[i].phase = "resp"
        /\ calls' = Remove(calls, i)
        /\ offer' = offer
        /\ notified' = IF calls[i].err = "ok" THEN "success" ELSE "error"
        /\ isGenerating' = FALSE
        /\ UNCHANGED <<beyond, service, createForm, variant, offerId, route, mounted, isLoading,
                       isUploading, isSendingToCrm>>

\* handleGeneratePdf after its await
handleGeneratePdfResolve ==
    \E i \in 1..Len(calls) :
        /\ calls[i].kind = "generate" /\ calls[i].phase = "resp"
        /\ calls' = Remove(calls, i)
        /\ IF calls[i].err = "ok"
           THEN offer' = calls[i].ret /\ notified' = "success"
           ELSE offer' = offer /\ notified' = "error"
        /\ isGenerating' = FALSE
        /\ UNCHANGED <<beyond, service, createForm, variant, offerId, route, mounted, isLoading, isUploading, isSendingToCrm>>

\* handleUploadDescription that sends whatever file was picked
handleUploadDescriptionUnchecked(file) ==
    /\ UploadEnabled
    /\ Len(calls) < cap
    /\ isUploading' = TRUE
    /\ calls' = Append(calls, Call("upload", offer.id, file))
    /\ notified' = "none"
    /\ UNCHANGED <<beyond, service, createForm, variant, offerId, route, mounted, offer, isLoading,
                   isGenerating, isSendingToCrm>>

\* handleUploadDescription up to its await, for the picked file
handleUploadDescriptionFile(file) ==
    /\ UploadEnabled
    /\ Len(calls) < cap
    /\ IF ~(EndsWith(file.name, DotTxt) \/ EndsWith(file.name, DotMd))
       THEN /\ notified' = "format"
            /\ UNCHANGED <<isUploading, calls>>
       ELSE /\ isUploading' = TRUE
            /\ calls' = Append(calls, Call("upload", offer.id, file))
            /\ notified' = "none"
    /\ UNCHANGED <<beyond, service, createForm, variant, offerId, route, mounted, offer, isLoading,
                   isGenerating, isSendingToCrm>>

handleUploadDescription == \E file \in PageFiles : handleUploadDescriptionFile(file)

\* handleUploadDescription after its await: on success it calls fetchOffer()
handleUploadDescriptionResolve ==
    \E i \in 1..Len(calls) :
        /\ calls[i].kind = "upload" /\ calls[i].phase = "resp"
        /\ IF calls[i].err = "ok"
           THEN /\ notified' = "success"
                /\ fetchOfferStart(Remove(calls, i))
           ELSE /\ notified' = "error"
                /\ calls' = Remove(calls, i)
                /\ UNCHANGED isLoading
        /\ isUploading' = FALSE
        /\ UNCHANGED <<beyond, service, createForm, variant, offerId, route, mounted, offer, isGenerating, isSendingToCrm>>

\* handleStatusChange up to its await, from one of the rendered buttons
handleStatusChange ==
    \E newStatus \in StatusStrings :
        /\ Rendered
        /\ newStatus \in StatusButtons(variant, offer)
        /\ Len(calls) < cap
        /\ calls' = Append(calls, Call("status", offer.id, <<newStatus>>))
        /\ notified' = "none"
        /\ UNCHANGED <<beyond, service, createForm, variant, offerId, route, mounted, offer, isLoading, isGenerating,
                       isUploading, isSendingToCrm>>

\* handleStatusChange after its await
handleStatusChangeResolve ==
    \E i \in 1..Len(calls) :
        /\ calls[i].kind = "status" /\ calls[i].phase = "resp"
        /\ calls' = Remove(calls, i)
        /\ IF calls[i].err = "ok"
           THEN offer' = calls[i].ret /\ notified' = "success"
           ELSE offer' = offer /\ notified' = "error"
        /\ UNCHANGED <<beyond, service, createForm, variant, offerId, route, mounted, isLoading, isGenerating,
                       isUploading, isSendingToCrm>>

\* handleSendToCrm up to its await
handleSendToCrm ==
    /\ SendToCrmEnabled
    /\ Len(calls) < cap
    /\ isSendingToCrm' = TRUE
    /\ calls' = Append(calls, Call("send", offer.id, NULL))
    /\ notified' = "none"
    /\ UNCHANGED <<beyond, service, createForm, variant, offerId, route, mounted, offer, isLoading, isGenerating, isUploading>>

\* handleSendToCrm with setIsSendingToCrm(false) at the end of the try block instead
\* of in finally
handleSendToCrmResolveResetsInTry ==
    \E i \in 1..Len(calls) :
        /\ calls[i].kind = "send" /\ calls[i].phase = "resp"
        /\ calls' = Remove(calls, i)
        /\ IF calls[i].err = "ok"
           THEN offer' = calls[i].ret /\ notified' = "success" /\ isSendingToCrm' = FALSE
           ELSE offer' = offer /\ notified' = "error" /\ UNCHANGED isSendingToCrm
        /\ UNCHANGED <<beyond, service, createForm, variant, offerId, route, mounted, isLoading, isGenerating, isUploading>>

\* handleSendToCrm after its await
handleSendToCrmResolve ==
    \E i \in 1..Len(calls) :
        /\ calls[i].kind = "send" /\ calls[i].phase = "resp"
        /\ calls' = Remove(calls, i)
        /\ IF calls[i].err = "ok"
           THEN offer' = calls[i].ret /\ notified' = "success"
           ELSE offer' = offer /\ notified' = "error"
        /\ isSendingToCrm' = FALSE
        /\ UNCHANGED <<beyond, service, createForm, variant, offerId, route, mounted, isLoading, isGenerating, isUploading>>

\* what the Offer Service answers to call c
Answer(c, failAt, crmUp) ==
    CASE c.kind = "fetch"    -> getOffer(offers, files, c.id)
      [] c.kind = "generate" -> generatePdf(offers, files, c.id, failAt)
      [] c.kind \in {"upload", "submitUpload"}
                             -> uploadDescription(offers, files, c.id, c.arg)
      [] c.kind = "status"   -> updateStatus(offers, files, c.id, c.arg[1])
      [] c.kind = "send"     -> sendToCrm(offers, files, c.id, crmUp)
      [] c.kind = "delete"   -> deleteOffer(offers, files, c.id)

\* the Offer Service handles one request of the page; the OffersApi method
\* returns the body of an ok response and throws for every other one
Serve ==
    \E i \in 1..Len(calls), failAt \in PipelineSteps \cup {NoFailure}, crmUp \in BOOLEAN :
        /\ calls[i].phase = "req"
        /\ calls[i].kind \notin {"create", "list"}
        /\ (calls[i].kind # "generate") => failAt = NoFailure
        /\ (calls[i].kind # "send") => crmUp
        /\ LET r == Answer(calls[i], failAt, crmUp)
           IN /\ offers' = r.offers
              /\ files' = r.files
              /\ calls' = [calls EXCEPT ![i] = [@ EXCEPT !.phase = "resp", !.err = r.err,
                                                         !.ret = r.ret]]
        /\ notified' = "none"
        /\ UNCHANGED <<beyond, nextId, crm_companies, raynet, created, apiLast, createForm, variant, offerId, route,
                       mounted, offer, isLoading, isGenerating, isUploading, isSendingToCrm>>

\* fetch() rejects: the request never reaches the service
NetworkError ==
    \E i \in 1..Len(calls) :
        /\ calls[i].phase = "req"
        /\ calls' = [calls EXCEPT ![i] = [@ EXCEPT !.phase = "resp", !.err = "NetworkError"]]
        /\ notified' = "none"
        /\ UNCHANGED <<beyond, service, createForm, variant, offerId, route, mounted, offer, isLoading, isGenerating,
                       isUploading, isSendingToCrm>>

InitDetail ==
    /\ Quiet
    /\ \E p \in {q \in Payloads : createOffer(<< >>, << >>, 1, q).err = "ok"} :
          /\ offers = createOffer(<< >>, << >>, 1, p).offers
          /\ created = [k \in {OfferIdSeq[1]} |-> Snapshot(p)]
    /\ nextId = 2
    /\ files = << >>
    /\ crm_companies = {}
    /\ raynet = [r \in {R1} |-> Acme]
    /\ apiLast = NoLog
    /\ variant \in {"basic", "crm"}
    /\ route = "detail"
    /\ offerId = OfferIdSeq[1]
    /\ mounted = FALSE
    /\ offer = NoBody
    /\ isLoading = TRUE
    /\ isGenerating = FALSE
    /\ isUploading = FALSE
    /\ isSendingToCrm = FALSE
    /\ calls = << >>
    /\ notified = "none"
    /\ NoCreateForm

NextDetail ==
    \/ Mount
    \/ fetchOfferResolve
    \/ handleGeneratePdf
    \/ handleGeneratePdfResolve
    \/ handleUploadDescription
    \/ handleUploadDescriptionResolve
    \/ handleStatusChange
    \/ handleStatusChangeResolve
    \/ handleSendToCrm
    \/ handleSendToCrmResolve
    \/ Serve
    \/ NetworkError
    \/ ApiUpdateStatus
    \/ ApiUploadDescription
    \/ ApiGeneratePdf
    \/ ApiSendToCrm
    \/ ApiDeleteOffer

\* one detail page and a direct caller on the same offer
SpecDetail == InitDetail /\ [][NextDetail]_vars

\* the detail page of an existing offer, with room for one call more in flight
InitPage ==
    /\ now = 1
    /\ cap = MaxCalls + 1
    /\ offersSlice = [state |-> initialState, action |-> [type |-> "@@INIT"]]
    /\ \E p \in {q \in Payloads : createOffer(<< >>, << >>, 1, q).err = "ok"} :
          /\ offers = createOffer(<< >>, << >>, 1, p).offers
          /\ created = [k \in {OfferIdSeq[1]} |-> Snapshot(p)]
    /\ nextId = 2
    /\ files = << >>
    /\ crm_companies = {}
    /\ raynet = [r \in {R1} |-> Acme]
    /\ apiLast = NoLog
    /\ crm_contacts = {}
    /\ raynetPeople = [r \in {P1} |-> [company |-> R1, first_name |-> Ann]]
    /\ list = << >>
    /\ listLoading = TRUE
    /\ companies = << >>
    /\ contacts = << >>
    /\ lookups = << >>
    /\ formMounted = TRUE
    /\ variant \in {"basic", "crm"}
    /\ route = "detail"
    /\ offerId = OfferIdSeq[1]
    /\ mounted = FALSE
    /\ offer = NoBody
    /\ isLoading = TRUE
    /\ isGenerating = FALSE
    /\ isUploading = FALSE
    /\ isSendingToCrm = FALSE
    /\ calls = << >>
    /\ notified = "none"
    /\ NoCreateForm

NextPage ==
    \/ Mount
    \/ fetchOfferResolve
    \/ handleGeneratePdf
    \/ handleGeneratePdfResolve
    \/ handleUploadDescription
    \/ handleUploadDescriptionResolve
    \/ handleStatusChange
    \/ handleStatusChangeResolve
    \/ handleSendToCrm
    \/ handleSendToCrmResolve
    \/ Serve
    \/ NetworkError

\* one detail page whose user does not wait for an answer before the next click
SpecPage == InitPage /\ [][NextPage]_vars

----------------------------------------------------------------------------
(* Create offer form *)

IsSpace(ch) == ch = " "

RECURSIVE trimStart(_)
trimStart(str) ==
    IF str # << >> /\ IsSpace(Head(str)) THEN trimStart(Tail(str)) ELSE str

RECURSIVE trimEnd(_)
trimEnd(str) ==
    IF str # << >> /\ IsSpace(str[Len(str)]) THEN trimEnd(SubSeq(str, 1, Len(str) - 1)) ELSE str

\* String.prototype.trim
trim(str) == trimEnd(trimStart(str))

\* value || undefined; JSON.stringify leaves an undefined member out
OrUndefined(str) == IF str = Empty THEN NULL ELSE str

\* the payload handleSubmit posts
SubmitPayload(f) ==
    [raynet_company_id |-> OrUndefined(f.raynetCompanyId),
     raynet_contact_id |-> OrUndefined(f.raynetContactId),
     company_name |-> f.companyName,
     company_nip |-> OrUndefined(f.companyNip),
     company_address |-> OrUndefined(f.companyAddress),
     contact_first_name |-> OrUndefined(f.contactFirstName),
     contact_last_name |-> OrUndefined(f.contactLastName),
     contact_phone |-> OrUndefined(f.contactPhone),
     contact_email |-> OrUndefined(f.contactEmail),
     title |-> f.title,
     valid_until |-> OrUndefined(f.validUntil)]

\* what the user types into the inputs of the form
TypedInputs == { <<"companyName", Empty>>, <<"companyName", Blank>>, <<"companyName", AcmeSp>>,
                 <<"title", Empty>>, <<"title", Q1>>,
                 <<"companyNip", Empty>>, <<"companyNip", Nip1>> }

\* onChange={(e) => setX(e.target.value)}
setField ==
    \E in \in TypedInputs :
        /\ route = "create"
        /\ form[in[1]] # in[2]
        /\ form' = [form EXCEPT ![in[1]] = in[2]]
        /\ notified' = "none"
        /\ UNCHANGED <<beyond, service, variant, route, offerId, mounted, offer, isLoading, isGenerating,
                       isUploading, isSendingToCrm, calls, descriptionFile, isSubmitting>>

\* handleFileChange for a picked file
handleFileChangeFile(file) ==
    /\ route = "create"
    /\ IF ~(EndsWith(file.name, DotTxt) \/ EndsWith(file.name, DotMd))
       THEN notified' = "format" /\ UNCHANGED descriptionFile
       ELSE notified' = "none" /\ descriptionFile' = file
    /\ UNCHANGED <<beyond, service, variant, route, offerId, mounted, offer, isLoading, isGenerating,
                   isUploading, isSendingToCrm, calls, form, isSubmitting>>

handleFileChange == \E file \in PageFiles : handleFileChangeFile(file)

\* onClick={() => setDescriptionFile(null)}
clearDescriptionFile ==
    /\ route = "create"
    /\ descriptionFile # NoFile
    /\ descriptionFile' = NoFile
    /\ notified' = "none"
    /\ UNCHANGED <<beyond, service, variant, route, offerId, mounted, offer, isLoading, isGenerating,
                   isUploading, isSendingToCrm, calls, form, isSubmitting>>

\* handleSubmit that tests the fields without trim()
handleSubmitNoTrim ==
    /\ route = "create"
    /\ ~isSubmitting
    /\ CanCreate /\ calls = << >>
    /\ IF form.companyName = Empty \/ form.title = Empty
       THEN /\ notified' = "error"
            /\ UNCHANGED <<calls, isSubmitting>>
       ELSE /\ isSubmitting' = TRUE
            /\ calls' = Append(calls, Call("create", UnknownId,
                                            <<SubmitPayload(form), descriptionFile>>))
            /\ notified' = "none"
    /\ UNCHANGED <<beyond, service, variant, route, offerId, mounted, offer, isLoading, isGenerating,
                   isUploading, isSendingToCrm, form, descriptionFile>>

\* handleSubmit up to its first await; the call keeps the descriptionFile of this render
handleSubmit ==
    /\ route = "create"
    /\ ~isSubmitting
    /\ CanCreate /\ calls = << >>
    /\ IF trim(form.companyName) = Empty \/ trim(form.title) = Empty
       THEN /\ notified' = "error"
            /\ UNCHANGED <<calls, isSubmitting>>
       ELSE /\ isSubmitting' = TRUE
            /\ calls' = Append(calls, Call("create", UnknownId,
                                            <<SubmitPayload(form), descriptionFile>>))
            /\ notified' = "none"
    /\ UNCHANGED <<beyond, service, variant, route, offerId, mounted, offer, isLoading, isGenerating,
                   isUploading, isSendingToCrm, form, descriptionFile>>

\* router.push(`/offers/${id}`): the form unmounts, a detail page mounts
Navigate(id) ==
    /\ route' = "detail"
    /\ offerId' = id
    /\ mounted' = FALSE
    /\ form' = EmptyForm
    /\ descriptionFile' = NoFile

\* handleSubmit after await createOffer
handleSubmitCreated ==
    \E i \in 1..Len(calls) :
        /\ route = "create"
        /\ calls[i].kind = "create" /\ calls[i].phase = "resp"
        /\ IF calls[i].err # "ok"
           THEN /\ notified' = "error"
                /\ calls' = Remove(calls, i)
                /\ isSubmitting' = FALSE
                /\ UNCHANGED <<route, offerId, mounted, form, descriptionFile>>
           ELSE IF calls[i].arg[2] # NoFile
           THEN /\ calls' = Append(Remove(calls, i),
                                   Call("submitUpload", calls[i].ret.id, calls[i].arg[2]))
                /\ notified' = "none"
                /\ UNCHANGED <<route, offerId, mounted, form, descriptionFile, isSubmitting>>
           ELSE /\ notified' = "success"
                /\ calls' = Remove(calls, i)
                /\ Navigate(calls[i].ret.id)
                /\ isSubmitting' = FALSE
        /\ UNCHANGED <<beyond, service, variant, offer, isLoading, isGenerating, isUploading,
                       isSendingToCrm>>

\* handleSubmit after await uploadDescription
handleSubmitUploaded ==
    \E i \in 1..Len(calls) :
        /\ route = "create"
        /\ calls[i].kind = "submitUpload" /\ calls[i].phase = "resp"
        /\ calls' = Remove(calls, i)
        /\ IF calls[i].err # "ok"
           THEN /\ notified' = "error"
                /\ UNCHANGED <<route, offerId, mounted, form, descriptionFile>>
           ELSE /\ notified' = "success"
                /\ Navigate(calls[i].id)
        /\ isSubmitting' = FALSE
        /\ UNCHANGED <<beyond, service, variant, offer, isLoading, isGenerating, isUploading,
                       isSendingToCrm>>

\* the Offer Service handles the POST /offers of the form
ServeCreate ==
    \E i \in 1..Len(calls) :
        /\ calls[i].kind = "create" /\ calls[i].phase = "req"
        /\ CanCreate
        /\ LET r == createOffer(offers, files, nextId, calls[i].arg[1])
               id == OfferIdSeq[nextId]
           IN /\ offers' = r.offers
              /\ files' = r.files
              /\ nextId' = IF r.err = "ok" THEN nextId + 1 ELSE nextId
              /\ created' = IF r.err = "ok"
                            THEN [k \in DOMAIN created \cup {id} |->
                                     IF k = id THEN Snapshot(calls[i].arg[1]) ELSE created[k]]
                            ELSE created
              /\ calls' = [calls EXCEPT ![i] = [@ EXCEPT !.phase = "resp", !.err = r.err,
                                                         !.ret = r.ret]]
        /\ notified' = "none"
        /\ UNCHANGED <<beyond, crm_companies, raynet, apiLast, createForm, variant, route, offerId,
                       mounted, offer, isLoading, isGenerating, isUploading, isSendingToCrm>>

InitClient ==
    /\ Quiet
    /\ offers = << >>
    /\ nextId = 1
    /\ files = << >>
    /\ crm_companies = {}
    /\ raynet = [r \in {R1} |-> Acme]
    /\ created = << >>
    /\ apiLast = [kind |-> "none", id |-> UnknownId, arg |-> NULL, err |-> "ok"]
    /\ variant \in {"basic", "crm"}
    /\ route = "create"
    /\ offerId = UnknownId
    /\ mounted = FALSE
    /\ offer = NoBody
    /\ isLoading = TRUE
    /\ isGenerating = FALSE
    /\ isUploading = FALSE
    /\ isSendingToCrm = FALSE
    /\ calls = << >>
    /\ notified = "none"
    /\ NoCreateForm

NextClient ==
    \/ setField
    \/ handleFileChange
    \/ clearDescriptionFile
    \/ handleSubmit
    \/ handleSubmitCreated
    \/ handleSubmitUploaded
    \/ ServeCreate
    \/ Mount
    \/ fetchOfferResolve
    \/ handleGeneratePdf
    \/ handleGeneratePdfResolve
    \/ handleUploadDescription
    \/ handleUploadDescriptionResolve
    \/ handleStatusChange
    \/ handleStatusChangeResolve
    \/ handleSendToCrm
    \/ handleSendToCrmResolve
    \/ Serve
    \/ NetworkError
    \/ ApiCreateOffer

\* one user, who opens the create form or the detail page of an offer that exists
SpecClient == (InitClient \/ InitDetail) /\ [][NextClient]_vars

----------------------------------------------------------------------------
(* Offer list page *)

\* data.sort((a, b) => new Date(b.updated_at) - new Date(a.updated_at)) is a stable
\* sort: o goes behind every record that is not older than it
RECURSIVE insertByUpdatedAt(_, _)
insertByUpdatedAt(sorted, o) ==
    IF sorted = << >> THEN <<o>>
    ELSE IF Head(sorted).updated_at >= o.updated_at
    THEN <<Head(sorted)>> \o insertByUpdatedAt(Tail(sorted), o)
    ELSE <<o>> \o sorted

RECURSIVE sortByUpdatedAt(_)
sortByUpdatedAt(data) ==
    IF data = << >> THEN << >>
    ELSE insertByUpdatedAt(sortByUpdatedAt(SubSeq(data, 1, Len(data) - 1)), data[Len(data)])

\* prev.filter((o) => o.id !== offerId)
RECURSIVE withoutOffer(_, _)
withoutOffer(prev, id) ==
    IF prev = << >> THEN << >>
    ELSE IF Head(prev).id = id THEN withoutOffer(Tail(prev), id)
    ELSE <<Head(prev)>> \o withoutOffer(Tail(prev), id)

\* the cards and their delete buttons are rendered
CardsRendered == route = "offers" /\ mounted /\ ~listLoading

\* fetchOffers up to its await: run by the mount effect and by the refresh button,
\* which is disabled while isLoading
fetchOffers ==
    /\ route = "offers"
    /\ ~mounted \/ ~listLoading
    /\ Len(calls) < cap
    /\ mounted' = TRUE
    /\ listLoading' = TRUE
    /\ calls' = Append(calls, Call("list", UnknownId, NULL))
    /\ notified' = "none"
    /\ UNCHANGED <<service, createForm, variant, route, offerId, offer, isLoading, isGenerating,
                   isUploading, isSendingToCrm, now, still, crmSide, list, lookup>>

\* fetchOffers that keeps the order of the response
fetchOffersResolveUnsorted ==
    \E i \in 1..Len(calls) :
        /\ calls[i].kind = "list" /\ calls[i].phase = "resp"
        /\ calls' = Remove(calls, i)
        /\ list' = IF calls[i].err = "ok" THEN calls[i].ret.rows ELSE << >>
        /\ listLoading' = FALSE
        /\ notified' = "none"
        /\ UNCHANGED <<service, createForm, variant, route, offerId, mounted, offer, isLoading,
                       isGenerating, isUploading, isSendingToCrm, now, still, crmSide, lookup>>

\* fetchOffers after its await: the catch branch empties the list and raises no toast
fetchOffersResolve ==
    \E i \in 1..Len(calls) :
        /\ calls[i].kind = "list" /\ calls[i].phase = "resp"
        /\ calls' = Remove(calls, i)
        /\ list' = IF calls[i].err = "ok" THEN sortByUpdatedAt(calls[i].ret.rows) ELSE << >>
        /\ listLoading' = FALSE
        /\ notified' = "none"
        /\ UNCHANGED <<service, createForm, variant, route, offerId, mounted, offer, isLoading,
                       isGenerating, isUploading, isSendingToCrm, now, still, crmSide, lookup>>

\* OffersApi.deleteOffer: what its caller gets for the response of call c; the catch
\* block turns every failure into a result
OffersApiDeleteOffer(c) == [thrown |-> FALSE, success |-> c.err = "ok"]

\* handleDelete up to its await, from the card of a displayed offer
handleDelete ==
    \E k \in 1..Len(list) :
        /\ CardsRendered
        /\ Len(calls) < cap
        /\ calls' = Append(calls, Call("delete", list[k].id, NULL))
        /\ notified' = "none"
        /\ UNCHANGED <<service, createForm, variant, route, offerId, mounted, offer, isLoading,
                       isGenerating, isUploading, isSendingToCrm, beyond>>

\* handleDelete that drops the card whatever the result says
handleDeleteResolveIgnoresResult ==
    \E i \in 1..Len(calls) :
        /\ calls[i].kind = "delete" /\ calls[i].phase = "resp"
        /\ calls' = Remove(calls, i)
        /\ list' = withoutOffer(list, calls[i].id)
        /\ notified' = "success"
        /\ UNCHANGED <<service, createForm, variant, route, offerId, mounted, offer, isLoading,
                       isGenerating, isUploading, isSendingToCrm, now, still, crmSide, listLoading,
                       lookup>>

\* handleDelete after its await
handleDeleteResolve ==
    \E i \in 1..Len(calls) :
        /\ calls[i].kind = "delete" /\ calls[i].phase = "resp"
        /\ calls' = Remove(calls, i)
        /\ LET result == OffersApiDeleteOffer(calls[i])
           IN IF result.thrown
              THEN list' = list /\ notified' = "none"
              ELSE IF result.success
              THEN list' = withoutOffer(list, calls[i].id) /\ notified' = "success"
              ELSE list' = list /\ notified' = "error"
        /\ UNCHANGED <<service, createForm, variant, route, offerId, mounted, offer, isLoading,
                       isGenerating, isUploading, isSendingToCrm, now, still, crmSide, listLoading,
                       lookup>>

\* the Offer Service answers the GET /offers of the list page
ServeList ==
    \E i \in 1..Len(calls), data \in listOffers(offers) :
        /\ calls[i].kind = "list" /\ calls[i].phase = "req"
        /\ calls' = [calls EXCEPT ![i] = [@ EXCEPT !.phase = "resp", !.ret = [rows |-> data]]]
        /\ notified' = "none"
        /\ UNCHANGED <<service, createForm, variant, route, offerId, mounted, offer, isLoading,
                       isGenerating, isUploading, isSendingToCrm, beyond>>

\* time passes at the Offer Service, once after the list page has opened
Tick ==
    /\ now <= MaxListed
    /\ now' = now + 1
    /\ UNCHANGED <<service, page, createForm, still, crmSide, listPage, lookup>>

\* the offers in the store when the list page opens; the k-th was written at time k
ListedIds == {OfferIdSeq[i] : i \in 1..MaxListed}

InitList ==
    /\ now = MaxListed
    /\ cap = MaxCalls
    /\ offersSlice = [state |-> initialState, action |-> [type |-> "@@INIT"]]
    /\ offers = [id \in ListedIds |->
                    [NewOffer(id, Payload(Acme, NULL, Q1, NULL)) EXCEPT
                        !.updated_at = CHOOSE k \in 1..MaxListed : OfferIdSeq[k] = id]]
    /\ created = [id \in ListedIds |-> Snapshot(Payload(Acme, NULL, Q1, NULL))]
    /\ nextId = MaxListed + 1
    /\ files = << >>
    /\ crm_companies = {}
    /\ raynet = [r \in {R1} |-> Acme]
    /\ apiLast = NoLog
    /\ crm_contacts = {}
    /\ raynetPeople = [r \in {P1} |-> [company |-> R1, first_name |-> Ann]]
    /\ list = << >>
    /\ listLoading = TRUE
    /\ companies = << >>
    /\ contacts = << >>
    /\ lookups = << >>
    /\ formMounted = TRUE
    /\ variant = "basic"
    /\ route = "offers"
    /\ offerId = UnknownId
    /\ mounted = FALSE
    /\ offer = NoBody
    /\ isLoading = TRUE
    /\ isGenerating = FALSE
    /\ isUploading = FALSE
    /\ isSendingToCrm = FALSE
    /\ calls = << >>
    /\ notified = "none"
    /\ NoCreateForm

NextList ==
    \/ fetchOffers
    \/ fetchOffersResolve
    \/ handleDelete
    \/ handleDeleteResolve
    \/ ServeList
    \/ Serve
    \/ NetworkError
    \/ Tick
    \/ ApiUploadDescription

\* the list page over a store that another session keeps writing to
SpecList == InitList /\ [][NextList]_vars

----------------------------------------------------------------------------
(* Create offer form: CRM company and contact *)

Lookup(kind, id) == [kind |-> kind, id |-> id, phase |-> "req", err |-> "ok", ret |-> NoBody]

\* value || ""
OrEmpty(str) == IF str = NULL THEN Empty ELSE str

\* rows.find((c) => c.id === id); NoBody is undefined
find(rows, id) ==
    LET hits == {k \in 1..Len(rows) : rows[k].id = id}
    IN IF hits = {} THEN NoBody
       ELSE rows[CHOOSE k \in hits : \A j \in hits : k <= j]

\* OffersApi.getCompanies / getCompanyContacts that pass a 404 on as an error
OffersApiGetRowsStrict(c) ==
    IF c.err = "ok" THEN [thrown |-> FALSE, rows |-> c.ret.rows]
    ELSE [thrown |-> TRUE, rows |-> << >>]

\* OffersApi.getCompanies / getCompanyContacts: what the caller gets for the response
\* of lookup c; a 404 is an empty list
OffersApiGetRows(c) ==
    IF c.err = "NotFound" THEN [thrown |-> FALSE, rows |-> << >>]
    ELSE IF c.err = "ok" THEN [thrown |-> FALSE, rows |-> c.ret.rows]
    ELSE [thrown |-> TRUE, rows |-> << >>]

\* the mount effect: loadCompanies up to its await
loadCompanies ==
    /\ route = "create"
    /\ ~formMounted
    /\ formMounted' = TRUE
    /\ lookups' = Append(lookups, Lookup("companies", NULL))
    /\ notified' = "none"
    /\ UNCHANGED <<service, createForm, variant, route, offerId, mounted, offer, isLoading,
                   isGenerating, isUploading, isSendingToCrm, calls, now, still, crmSide, listPage,
                   companies, contacts>>

\* loadCompanies after its await; its catch block is empty
loadCompaniesResolve ==
    \E i \in 1..Len(lookups) :
        /\ route = "create"
        /\ lookups[i].kind = "companies" /\ lookups[i].phase = "resp"
        /\ lookups' = Remove(lookups, i)
        /\ LET data == OffersApiGetRows(lookups[i])
           IN companies' = IF data.thrown THEN companies ELSE data.rows
        /\ notified' = "none"
        /\ UNCHANGED <<service, createForm, variant, route, offerId, mounted, offer, isLoading,
                       isGenerating, isUploading, isSendingToCrm, calls, now, still, crmSide,
                       listPage, contacts, formMounted>>

\* the values of the company select: "-- wybierz --" and the loaded companies
CompanyOptions == {Empty} \cup {companies[k].id : k \in 1..Len(companies)}

\* handleCompanySelect, and the effect on selectedCompanyId that the render after it
\* runs: no company clears the contacts, a company starts loadContacts
handleCompanySelect ==
    \E companyId \in CompanyOptions :
        /\ route = "create"
        /\ companyId # form.selectedCompanyId
        /\ companyId # Empty => Len(lookups) < cap
        /\ LET company == find(companies, companyId)
           IN form' = IF company # NoBody
                      THEN [form EXCEPT !.selectedCompanyId = companyId,
                                        !.selectedContactId = Empty,
                                        !.companyName = company.name,
                                        !.companyNip = OrEmpty(company.nip),
                                        !.companyAddress = OrEmpty(company.address),
                                        !.raynetCompanyId = company.raynet_id]
                      ELSE [form EXCEPT !.selectedCompanyId = companyId,
                                        !.selectedContactId = Empty,
                                        !.raynetCompanyId = Empty]
        /\ IF companyId = Empty
           THEN contacts' = << >> /\ UNCHANGED lookups
           ELSE lookups' = Append(lookups, Lookup("contacts", companyId)) /\ UNCHANGED contacts
        /\ notified' = "none"
        /\ UNCHANGED <<service, variant, route, offerId, mounted, offer, isLoading, isGenerating,
                       isUploading, isSendingToCrm, calls, descriptionFile, isSubmitting,
                       now, still, crmSide, listPage, companies, formMounted>>

\* loadContacts after its await
loadContactsResolve ==
    \E i \in 1..Len(lookups) :
        /\ route = "create"
        /\ lookups[i].kind = "contacts" /\ lookups[i].phase = "resp"
        /\ lookups' = Remove(lookups, i)
        /\ LET data == OffersApiGetRows(lookups[i])
           IN contacts' = IF data.thrown THEN << >> ELSE data.rows
        /\ notified' = "none"
        /\ UNCHANGED <<service, createForm, variant, route, offerId, mounted, offer, isLoading,
                       isGenerating, isUploading, isSendingToCrm, calls, now, still, crmSide,
                       listPage, companies, formMounted>>

ContactOptions == {Empty} \cup {contacts[k].id : k \in 1..Len(contacts)}

handleContactSelect ==
    \E contactId \in ContactOptions :
        /\ route = "create"
        /\ contactId # form.selectedContactId
        /\ LET contact == find(contacts, contactId)
           IN form' = IF contact # NoBody
                      THEN [form EXCEPT !.selectedContactId = contactId,
                                        !.contactFirstName = OrEmpty(contact.first_name),
                                        !.contactLastName = OrEmpty(contact.last_name),
                                        !.contactPhone = OrEmpty(contact.phone),
                                        !.contactEmail = OrEmpty(contact.email),
                                        !.raynetContactId = contact.raynet_id]
                      ELSE [form EXCEPT !.selectedContactId = contactId,
                                        !.raynetContactId = Empty]
        /\ notified' = "none"
        /\ UNCHANGED <<service, variant, route, offerId, mounted, offer, isLoading, isGenerating,
                       isUploading, isSendingToCrm, calls, descriptionFile, isSubmitting, beyond>>

\* the mirror rows lookup c asks for
Matching(c) ==
    IF c.kind = "companies" THEN crm_companies
    ELSE {row \in crm_contacts : row.company_id = c.id}

\* the CRM Mirror Store answers a lookup of the form: the rows in some order, or, when
\* there are none, possibly a 404
ServeCrm ==
    \E i \in 1..Len(lookups) :
        /\ lookups[i].phase = "req"
        /\ \E data \in listCompanies(Matching(lookups[i])),
              status \in {"ok"} \cup (IF Matching(lookups[i]) = {} THEN {"NotFound"} ELSE {}) :
              lookups' = [lookups EXCEPT ![i] =
                             [@ EXCEPT !.phase = "resp", !.err = status,
                                       !.ret = IF status = "ok" THEN [rows |-> data] ELSE NoBody]]
        /\ notified' = "none"
        /\ UNCHANGED <<service, createForm, variant, route, offerId, mounted, offer, isLoading,
                       isGenerating, isUploading, isSendingToCrm, calls, now, still, crmSide,
                       listPage, companies, contacts, formMounted>>

\* fetch() of a lookup rejects
LookupNetworkError ==
    \E i \in 1..Len(lookups) :
        /\ lookups[i].phase = "req"
        /\ lookups' = [lookups EXCEPT ![i] = [@ EXCEPT !.phase = "resp", !.err = "NetworkError"]]
        /\ notified' = "none"
        /\ UNCHANGED <<service, createForm, variant, route, offerId, mounted, offer, isLoading,
                       isGenerating, isUploading, isSendingToCrm, calls, now, still, crmSide,
                       listPage, companies, contacts, formMounted>>

InitForm ==
    /\ now = 1
    /\ cap = MaxCalls + 1
    /\ offersSlice = [state |-> initialState, action |-> [type |-> "@@INIT"]]
    /\ offers = << >>
    /\ nextId = 1
    /\ files = << >>
    /\ raynet = [r \in {R1} |-> Acme]
    /\ raynetPeople = [r \in {P1} |-> [company |-> R1, first_name |-> Ann]]
    /\ \/ crm_companies = {} /\ crm_contacts = {}
       \/ /\ crm_companies = sync({}, raynet)
          /\ crm_contacts = syncContacts({}, raynetPeople)
    /\ created = << >>
    /\ apiLast = NoLog
    /\ list = << >>
    /\ listLoading = TRUE
    /\ companies = << >>
    /\ contacts = << >>
    /\ lookups = << >>
    /\ formMounted = FALSE
    /\ variant = "crm"
    /\ route = "create"
    /\ offerId = UnknownId
    /\ mounted = FALSE
    /\ offer = NoBody
    /\ isLoading = TRUE
    /\ isGenerating = FALSE
    /\ isUploading = FALSE
    /\ isSendingToCrm = FALSE
    /\ calls = << >>
    /\ notified = "none"
    /\ NoCreateForm

NextForm ==
    \/ loadCompanies
    \/ loadCompaniesResolve
    \/ handleCompanySelect
    \/ loadContactsResolve
    \/ handleContactSelect
    \/ ServeCrm
    \/ LookupNetworkError
    \/ setField
    \/ handleSubmit
    \/ handleSubmitCreated
    \/ ServeCreate
    \/ NetworkError
    \/ ApiSyncCrm

\* the create form next to the CRM mirror, which is empty or synced
SpecForm == InitForm /\ [][NextForm]_vars

----------------------------------------------------------------------------
(* Status workflow *)

\* C1: a manual status update succeeds only on generated->sent, sent->accepted and
\* sent->expired; for every other pair of current and target status, unknown strings
\* and target = current included, the call fails with InvalidTransition and leaves
\* the offer record and the stored files as they were.
C1_UpdateStatusContract ==
    [][apiLast'.kind = "status" /\ apiLast'.id \in DOMAIN offers =>
         LET id == apiLast'.id
             pair == <<offers[id].status, apiLast'.arg[1]>>
             allowed == pair \in { <<"generated", "sent">>, <<"sent", "accepted">>,
                                   <<"sent", "expired">> }
         IN /\ apiLast'.err = "ok" => allowed
            /\ ~allowed => /\ apiLast'.err = "InvalidTransition"
                           /\ offers' = offers
                           /\ files' = files]_vars

\* a status update whose target is the current status was rejected
C1_Witness ==
    /\ apiLast.kind = "status"
    /\ apiLast.err = "InvalidTransition"
    /\ apiLast.id \in DOMAIN offers
    /\ offers[apiLast.id].status = apiLast.arg[1]

\* C2: a draft offer leaves draft only to generated and only by a generatePdf call; a
\* manual status update on a draft offer is rejected with InvalidTransition and changes
\* nothing; no detail page renders a manual button whose target is generated.
C2_DraftLeavesOnlyByGeneration ==
    /\ [](\A id \in DOMAIN offers, v \in {"basic", "crm"} :
             "generated" \notin StatusButtons(v, offers[id]))
    /\ [][\A id \in DOMAIN offers :
             offers[id].status = "draft" =>
                /\ (id \in DOMAIN offers' /\ offers'[id].status # "draft") =>
                       /\ offers'[id].status = "generated"
                       /\ apiLast' = [kind |-> "generate", id |-> id, arg |-> NULL, err |-> "ok"]
                /\ (apiLast'.kind = "status" /\ apiLast'.id = id) =>
                       /\ apiLast'.err = "InvalidTransition"
                       /\ offers' = offers]_vars

\* the direct draft->sent of a draft offer was rejected
C2_Witness ==
    /\ apiLast.kind = "status"
    /\ apiLast.arg = <<"sent">>
    /\ apiLast.err = "InvalidTransition"
    /\ apiLast.id \in DOMAIN offers
    /\ offers[apiLast.id].status = "draft"
    /\ offers[apiLast.id].description_file_path # NULL

\* C3: from sent only accepted or expired is reached, and accepted and expired are
\* terminal: no operation changes the status of an accepted or expired offer.
C3_SentThenTerminal ==
    [][\A id \in DOMAIN offers \cap DOMAIN offers' :
          /\ offers[id].status = "sent" =>
                 offers'[id].status \in {"sent", "accepted", "expired"}
          /\ offers[id].status \in {"accepted", "expired"} =>
                 offers'[id].status = offers[id].status]_vars

\* C4: every change of an offer's status is an edge of
\* draft->generated->sent->{accepted, expired}.
C4_StatusFollowsGraph ==
    [][\A id \in DOMAIN offers \cap DOMAIN offers' :
          offers'[id].status # offers[id].status =>
             <<offers[id].status, offers'[id].status>> \in
                 { <<"draft", "generated">>, <<"generated", "sent">>,
                   <<"sent", "accepted">>, <<"sent", "expired">> }]_vars

\* C5: the snapshot fields of every offer keep the values the offer was created with,
\* whatever is uploaded, generated, pushed, synced or edited in the CRM afterwards.
C5_SnapshotWriteOnce ==
    \A id \in DOMAIN offers : Snapshot(offers[id]) = created[id]

\* an offer linked to a company was pushed to the CRM, and the mirror row of that
\* company now carries another name than the offer
C5_Witness ==
    \E id \in DOMAIN offers :
        /\ offers[id].status = "sent"
        /\ offers[id].raynet_opportunity_id # NULL
        /\ \E row \in crm_companies :
              /\ row.raynet_id = offers[id].raynet_company_id
              /\ row.name # offers[id].company_name

----------------------------------------------------------------------------
(* Create, upload, generate *)

\* str has a character that is not a space
NonBlank(str) == \E k \in 1..Len(str) : str[k] # " "

\* name ends in ".txt" or ".md"
TxtOrMd(name) ==
    \/ EndsWith(name, <<".", "t", "x", "t">>)
    \/ EndsWith(name, <<".", "m", "d">>)

\* this step is the service answering call i of the given kind
Served(i, kind) ==
    /\ i \in 1..Len(calls)
    /\ calls[i].kind = kind
    /\ calls[i].phase = "req"
    /\ Len(calls') = Len(calls)
    /\ calls'[i].phase = "resp"
    /\ calls'[i].err # "NetworkError"

\* this step is the client taking the answer to call i of the given kind
Resolved(i, kind) ==
    /\ i \in 1..Len(calls)
    /\ calls[i].kind = kind
    /\ calls[i].phase = "resp"
    /\ calls' = Remove(calls, i)

\* what a createOffer of payload p that answered err did to the store
CreateOutcome(p, err) ==
    IF p.company_name = Empty \/ p.title = Empty
    THEN err # "ok" /\ offers' = offers
    ELSE err = "ok" =>
            \E id \in DOMAIN offers' \ DOMAIN offers :
                /\ DOMAIN offers' = DOMAIN offers \cup {id}
                /\ \A k \in DOMAIN offers : offers'[k] = offers[k]
                /\ offers'[id].status = "draft"
                /\ offers'[id].description_file_path = NULL
                /\ offers'[id].document_path = NULL
                /\ offers'[id].ai_generated_content = NULL
                /\ \A f \in SnapshotFields : offers'[id][f] = p[f]

\* C6: createOffer succeeds only with a non-empty company_name and title and then adds
\* exactly one offer, a draft without description, document and AI content whose
\* snapshot fields are those of the payload; the form sends no create request while
\* its company name or title is empty or only spaces.
C6_CreateOfferContract ==
    /\ [](\A i \in 1..Len(calls) :
             calls[i].kind = "create" =>
                 NonBlank(calls[i].arg[1].company_name) /\ NonBlank(calls[i].arg[1].title))
    /\ [][/\ (handleSubmit /\ ~(NonBlank(form.companyName) /\ NonBlank(form.title))) =>
                 /\ calls' = calls
                 /\ offers' = offers
                 /\ notified' = "error"
           /\ \A p \in Payloads : ApiCreateOfferPayload(p) => CreateOutcome(p, apiLast'.err)
           /\ \A i \in 1..Len(calls) :
                 Served(i, "create") =>
                     /\ CreateOutcome(calls[i].arg[1], calls'[i].err)
                     /\ calls'[i].err = "ok" =>
                            /\ calls'[i].ret.id \in DOMAIN offers' \ DOMAIN offers
                            /\ calls'[i].ret = offers'[calls'[i].ret.id]]_vars

\* the form created a draft whose company name kept its leading space
C6_Witness ==
    \E i \in 1..Len(calls) :
        /\ calls[i].kind = "create"
        /\ calls[i].phase = "resp"
        /\ calls[i].err = "ok"
        /\ calls[i].ret.id \in DOMAIN offers
        /\ offers[calls[i].ret.id].company_name = AcmeSp
        /\ offers[calls[i].ret.id].company_nip = NULL
        /\ offers[calls[i].ret.id].status = "draft"

\* C7: a file whose name ends neither in ".txt" nor in ".md" is rejected by the client:
\* no request is sent, nothing changes on the service, the create form keeps the file
\* it had; a file whose name ends in ".txt" or ".md" is sent by the detail page.
C7_UploadExtensionGate ==
    /\ [](/\ \A i \in 1..Len(calls) :
               /\ calls[i].kind \in {"upload", "submitUpload"} => TxtOrMd(calls[i].arg.name)
               /\ (calls[i].kind = "create" /\ calls[i].arg[2] # NoFile) =>
                      TxtOrMd(calls[i].arg[2].name)
           /\ descriptionFile # NoFile => TxtOrMd(descriptionFile.name))
    /\ [][\A file \in PageFiles :
             /\ handleUploadDescriptionFile(file) =>
                    IF TxtOrMd(file.name)
                    THEN calls' = Append(calls, Call("upload", offerId, file))
                    ELSE calls' = calls /\ offers' = offers /\ files' = files
             /\ (handleFileChangeFile(file) /\ ~TxtOrMd(file.name)) =>
                    /\ descriptionFile' = descriptionFile
                    /\ calls' = calls
                    /\ offers' = offers
                    /\ files' = files]_vars

\* the detail page turned a file down: nothing in flight, no description stored
C7_Witness ==
    /\ route = "detail"
    /\ notified = "format"
    /\ calls = << >>
    /\ offerId \in DOMAIN offers
    /\ offers[offerId].description_file_path = NULL
    /\ files = << >>

\* C8: while an offer has no description file, the generate control of its detail page
\* is disabled, and a generatePdf call made anyway answers PreconditionFailed and
\* leaves the store and the files as they are.
C8_NoGenerationWithoutDescription ==
    \A id \in DOMAIN offers :
        offers[id].description_file_path = NULL =>
            /\ id = offerId => ~GenerateEnabled
            /\ \A failAt \in PipelineSteps \cup {NoFailure} :
                  LET r == generatePdf(offers, files, id, failAt)
                  IN r.err = "PreconditionFailed" /\ r.offers = offers /\ r.files = files

\* the page shows an offer without description file and another upload has failed
C8_Witness ==
    /\ Rendered
    /\ ~isGenerating
    /\ offer.description_file_path = NULL
    /\ offerId \in DOMAIN offers
    /\ offers[offerId].description_file_path = NULL
    /\ notified = "error"

StepErrors == {"ReadError", "UpstreamServiceError", "RenderError"}

\* C9: a generatePdf that fails in one of the steps 1-4 leaves the store as it was;
\* document_path and ai_generated_content change only together with status =
\* generated; the page keeps the offer it showed; generatePdf still succeeds afterwards
\* when no step fails.
C9_FailedGenerationChangesNothing ==
    /\ [](\A i \in 1..Len(calls) :
             (/\ calls[i].kind = "generate"
              /\ calls[i].phase = "resp"
              /\ calls[i].err \in StepErrors
              /\ calls[i].id \in DOMAIN offers) =>
                 LET r == generatePdf(offers, files, calls[i].id, NoFailure)
                 IN r.err = "ok" /\ r.offers[calls[i].id].status = "generated")
    /\ [][/\ \A i \in 1..Len(calls) :
                 /\ (Served(i, "generate") /\ calls'[i].err \in StepErrors) =>
                        offers' = offers /\ files' = files
                 /\ (Resolved(i, "generate") /\ calls[i].err # "ok") =>
                        offer' = offer /\ ~isGenerating' /\ notified' = "error"
           /\ \A id \in DOMAIN offers \cap DOMAIN offers' :
                 (\/ offers'[id].document_path # offers[id].document_path
                  \/ offers'[id].ai_generated_content # offers[id].ai_generated_content) =>
                     /\ offers'[id].status = "generated"
                     /\ offers'[id].document_path # NULL
                     /\ offers'[id].ai_generated_content # NULL]_vars

\* the pipeline failed for a draft offer that has a description file: still a draft,
\* no document, and the page shows what it showed
C9_Witness ==
    /\ notified = "error"
    /\ ~isGenerating
    /\ calls = << >>
    /\ Rendered
    /\ offer.description_file_path # NULL
    /\ offer.status = "draft"
    /\ offerId \in DOMAIN offers
    /\ offers[offerId] = offer
    /\ offer.document_path = NULL
    /\ offer.ai_generated_content = NULL

\* C10: with a description file and no failing step, generatePdf answers the offer
\* with status = generated, a document_path and an ai_generated_content, which is the
\* stored record, and the page replaces the offer it shows with it.
C10_GenerationSucceeds ==
    /\ [](\A id \in DOMAIN offers :
             offers[id].description_file_path # NULL =>
                 generatePdf(offers, files, id, NoFailure).err = "ok")
    /\ [][\A i \in 1..Len(calls) :
             /\ (Served(i, "generate") /\ calls'[i].err = "ok") =>
                    /\ offers[calls[i].id].description_file_path # NULL
                    /\ calls'[i].ret = offers'[calls[i].id]
                    /\ calls'[i].ret.status = "generated"
                    /\ calls'[i].ret.document_path # NULL
                    /\ calls'[i].ret.ai_generated_content # NULL
             /\ (Resolved(i, "generate") /\ calls[i].err = "ok") =>
                    offer' = calls[i].ret /\ ~isGenerating']_vars

\* the page shows the generated offer the service stores
C10_Witness ==
    /\ Rendered
    /\ notified = "success"
    /\ ~isGenerating
    /\ offer.status = "generated"
    /\ offer.document_path # NULL
    /\ offer.ai_generated_content # NULL
    /\ offerId \in DOMAIN offers
    /\ offers[offerId] = offer

----------------------------------------------------------------------------
(* CRM push, delete *)

\* C11: sendToCrm succeeds only on an offer that is generated, has a document_path and
\* has a linked CRM company id, and then the stored offer carries an opportunity id;
\* otherwise the caller gets PreconditionFailed and nothing is changed.  The detail
\* page shows the send-to-CRM control for exactly the offers the service would accept.
C11_SendToCrmContract ==
    /\ [](\A id \in DOMAIN offers :
             canSendToCrm(offers[id]) <=> sendToCrm(offers, files, id, TRUE).err = "ok")
    /\ [][apiLast'.kind = "send" /\ apiLast'.id \in DOMAIN offers =>
             LET o == offers[apiLast'.id]
                 pre == /\ o.status = "generated"
                        /\ o.document_path # NULL
                        /\ o.raynet_company_id # NULL
             IN /\ apiLast'.err = "ok" =>
                       /\ pre
                       /\ offers'[o.id].raynet_opportunity_id # NULL
                /\ ~pre =>
                       /\ apiLast'.err = "PreconditionFailed"
                       /\ offers' = offers
                       /\ files' = files]_vars

\* a generated offer without a CRM company was refused, so the page shows no control
C11_Witness ==
    /\ apiLast.kind = "send"
    /\ apiLast.err = "PreconditionFailed"
    /\ apiLast.id \in DOMAIN offers
    /\ offers[apiLast.id].status = "generated"
    /\ offers[apiLast.id].document_path # NULL
    /\ offers[apiLast.id].raynet_company_id = NULL
    /\ ~canSendToCrm(offers[apiLast.id])

\* the ids of the offers that were deleted
Deleted == DOMAIN created \ DOMAIN offers

\* C12: a deleteOffer that reports success removes the record; from then on getOffer
\* of that id answers NotFound, listOffers does not return it, and no operation, a
\* later createOffer included, makes it exist again.
C12_DeleteIsTerminal ==
    [][/\ (apiLast'.kind = "delete" /\ apiLast'.err = "ok") =>
              /\ apiLast'.id \in DOMAIN offers
              /\ apiLast'.id \notin DOMAIN offers'
       /\ \A id \in Deleted : id \notin DOMAIN offers'
       /\ (apiLast'.kind = "get" /\ apiLast'.id \in Deleted) => apiLast'.err = "NotFound"
       /\ apiLast'.kind = "list" =>
              {apiLast'.arg[k] : k \in 1..Len(apiLast'.arg)} = DOMAIN offers]_vars

\* getOffer of a deleted id answered NotFound after another offer was created
C12_Witness ==
    /\ apiLast.kind = "get"
    /\ apiLast.err = "NotFound"
    /\ apiLast.id \in Deleted
    /\ DOMAIN offers # {}

\* C13: OffersApi.deleteOffer never throws, a failure of the network or of the service
\* comes back as a result with success = false; handleDelete takes the offer with that
\* id out of the displayed list when success is true and leaves the list as it is
\* otherwise.
C13_DeleteNeverThrows ==
    /\ [](\A i \in 1..Len(calls) :
             (calls[i].kind = "delete" /\ calls[i].phase = "resp") =>
                 /\ ~OffersApiDeleteOffer(calls[i]).thrown
                 /\ OffersApiDeleteOffer(calls[i]).success <=> calls[i].err = "ok")
    /\ [][\A i \in 1..Len(calls) :
             Resolved(i, "delete") =>
                 IF calls[i].err = "ok"
                 THEN /\ \A k \in 1..Len(list') : list'[k].id # calls[i].id
                      /\ list' = withoutOffer(list, calls[i].id)
                      /\ notified' = "success"
                 ELSE /\ list' = list
                      /\ notified' = "error"]_vars

\* a delete was refused and the card of that offer is still displayed
C13_Witness ==
    /\ route = "offers"
    /\ notified = "error"
    /\ calls = << >>
    /\ list # << >>
    /\ \E k \in 1..Len(list) : list[k].id \in DOMAIN offers

----------------------------------------------------------------------------
(* CRM mirror *)

\* this step is the mirror answering lookup i
LookupServed(i) ==
    /\ i \in 1..Len(lookups)
    /\ lookups[i].phase = "req"
    /\ Len(lookups') = Len(lookups)
    /\ lookups'[i].phase = "resp"
    /\ lookups'[i].err # "NetworkError"

\* C14: a lookup of companies or of the contacts of a company that finds no mirror row
\* gives the form an empty list and no error, whether the service answers an empty
\* list or a 404; and a form without companies still submits an offer with the typed
\* fields and no CRM company id, which the service creates.
C14_EmptyMirrorGivesEmptyLists ==
    /\ [][\A i \in 1..Len(lookups) :
             (LookupServed(i) /\ Matching(lookups[i]) = {}) =>
                 OffersApiGetRows(lookups'[i]) = [thrown |-> FALSE, rows |-> << >>]]_vars
    /\ [](( /\ route = "create" /\ formMounted /\ companies = << >>
            /\ ~isSubmitting /\ calls = << >> /\ CanCreate
            /\ trim(form.companyName) # Empty /\ trim(form.title) # Empty ) =>
               /\ ENABLED handleSubmit
               /\ SubmitPayload(form).raynet_company_id = NULL
               /\ SubmitPayload(form).company_name = form.companyName)
    /\ [][\A i \in 1..Len(calls) :
             (Served(i, "create") /\ companies = << >>) =>
                 /\ calls'[i].err = "ok"
                 /\ calls'[i].ret.raynet_company_id = NULL
                 /\ calls'[i].ret.company_name = calls[i].arg[1].company_name
                 /\ calls'[i].ret.id \in DOMAIN offers' \ DOMAIN offers]_vars

\* the mirror is empty, the company lookup was answered 404, and the offer typed into
\* the form was created without a CRM company
C14_Witness ==
    /\ route = "create"
    /\ crm_companies = {}
    /\ companies = << >>
    /\ \E i \in 1..Len(lookups) :
          /\ lookups[i].kind = "companies"
          /\ lookups[i].err = "NotFound"
          /\ ~OffersApiGetRows(lookups[i]).thrown
    /\ \E i \in 1..Len(calls) :
          /\ calls[i].kind = "create" /\ calls[i].phase = "resp" /\ calls[i].err = "ok"
          /\ calls[i].ret.raynet_company_id = NULL
          /\ calls[i].ret.id \in DOMAIN offers

\* no two rows of a mirror table carry the same raynet_id
UniqueRaynetId(table) == \A a, b \in table : a.raynet_id = b.raynet_id => a = b

\* C15: whatever the CRM holds, a second sync right after a sync leaves both mirror
\* tables as the first one left them, and no two mirrored companies and no two
\* mirrored contacts ever share a raynet_id.
C15_SyncIsIdempotent ==
    /\ sync(sync(crm_companies, raynet), raynet) = sync(crm_companies, raynet)
    /\ syncContacts(syncContacts(crm_contacts, raynetPeople), raynetPeople)
           = syncContacts(crm_contacts, raynetPeople)
    /\ UniqueRaynetId(crm_companies)
    /\ UniqueRaynetId(crm_contacts)

\* the mirror was synced after the company and the contact were renamed in the CRM:
\* it holds each of them once, under the new name, and one more sync changes nothing
C15_Witness ==
    /\ crm_companies = {CompanyRow(R1, Beta)}
    /\ crm_contacts = {ContactRow(P1, [company |-> R1, first_name |-> Bo])}
    /\ sync(crm_companies, raynet) = crm_companies
    /\ syncContacts(crm_contacts, raynetPeople) = crm_contacts

----------------------------------------------------------------------------
(* Client pages: calls in flight, failures, navigation *)

\* the calls of the given kind that are in flight
InFlight(kind) == {i \in 1..Len(calls) : calls[i].kind = kind}

\* C16: of each kind of call of the detail page (fetch, upload, generate, send to CRM,
\* status change) at most one is in flight at any time.
C16_OneCallPerKind ==
    \A kind \in {"fetch", "upload", "generate", "send", "status"} :
        Cardinality(InFlight(kind)) <= 1

\* the kinds of client call the pages raise a toast for when they fail
NotifiedKinds == {"list", "upload", "generate", "status", "send", "delete", "create",
                  "submitUpload"}

\* C17: when a call of the list page, the detail page or the create form fails, the
\* step that takes the failure raises an error notification and leaves the displayed
\* list and the displayed offer as they were.
C17_FailureNotifiesAndKeepsState ==
    [][\A i \in 1..Len(calls) : \A kind \in NotifiedKinds :
          (Resolved(i, kind) /\ calls[i].err # "ok") =>
              /\ notified' = "error"
              /\ list' = list
              /\ offer' = offer]_vars

\* C18: the page that shows changes only after a successful create, which opens the
\* detail page, and after a failed fetch of a detail page that has no offer loaded yet,
\* which opens the list; a page that displays an offer stays.
C18_OnlyInitialFetchFailureNavigates ==
    [][route' # route =>
          \/ /\ route = "create" /\ route' = "detail"
             /\ notified' = "success"
          \/ /\ route = "detail" /\ route' = "offers"
             /\ offer = NoBody
             /\ \E i \in 1..Len(calls) : Resolved(i, "fetch") /\ calls[i].err # "ok"]_vars

----------------------------------------------------------------------------
(* Offer list page: order *)

\* newest first
SortedByUpdatedAt(rows) ==
    \A k \in 1..(Len(rows) - 1) : rows[k].updated_at >= rows[k + 1].updated_at

\* a and b hold the same records, each as often
IsPermutation(a, b) ==
    /\ Len(a) = Len(b)
    /\ \A k \in 1..Len(a) :
          Cardinality({j \in 1..Len(a) : a[j] = a[k]})
              = Cardinality({j \in 1..Len(b) : b[j] = a[k]})

----------------------------------------------------------------------------
(* CRM push and the mirror *)

\* C20: a step changes a mirror table only if it is a sync, and a step that gives an
\* offer its opportunity id, the success of sendToCrm, changes no mirror row.
C20_OnlySyncWritesMirror ==
    [][/\ (crm_companies' # crm_companies \/ crm_contacts' # crm_contacts) =>
              /\ crm_companies' = sync(crm_companies, raynet)
              /\ crm_contacts' = syncContacts(crm_contacts, raynetPeople)
              /\ offers' = offers
       /\ \A id \in DOMAIN offers \cap DOMAIN offers' :
              offers'[id].raynet_opportunity_id # offers[id].raynet_opportunity_id =>
                  /\ crm_companies' = crm_companies
                  /\ crm_contacts' = crm_contacts]_vars

\* an offer was pushed to the CRM and the mirror, never synced, has no row
C20_Witness ==
    /\ crm_companies = {}
    /\ crm_contacts = {}
    /\ \E id \in DOMAIN offers :
          /\ offers[id].raynet_opportunity_id # NULL
          /\ offers[id].raynet_company_id # NULL

----------------------------------------------------------------------------
(* Description storage *)

InitUpload == InitService

NextUpload ==
    \/ ApiCreateOffer
    \/ ApiUploadDescription
    \/ ApiReuploadDescription
    \/ ApiGeneratePdf
    \/ ApiDeleteOffer

\* the Offer Service under a caller who uploads descriptions again and again
SpecUpload == InitUpload /\ [][NextUpload]_vars

\* the stored files that belong to offer id
FilesOf(id) == {path \in DOMAIN files : Len(path) >= 2 /\ path[2] = id}

\* C21: the description of an offer is stored under a path that depends on the offer id
\* only: every offer with a description has exactly one stored file, under that path; a
\* successful upload leaves that one file holding the uploaded content, leaves the files
\* of other offers alone, and changes no field of the offer but description_file_path
\* and updated_at, the path being the one the first upload set.
C21_UploadOverwrites ==
    /\ [](\A id \in DOMAIN offers :
             /\ offers[id].description_file_path # NULL =>
                    /\ offers[id].description_file_path = DescriptionPath(id)
                    /\ FilesOf(id) = {DescriptionPath(id)}
             /\ offers[id].description_file_path = NULL => FilesOf(id) = {})
    /\ [][\A id \in DOMAIN offers :
             (apiLast'.kind = "upload" /\ apiLast'.err = "ok" /\ apiLast'.id = id) =>
             LET file == CHOOSE f \in ApiFiles \cup Reuploads : f.name = apiLast'.arg
             IN  /\ FilesOf(id)' = {offers'[id].description_file_path}
                 /\ files'[offers'[id].description_file_path] = file.content
                 /\ offers[id].description_file_path # NULL =>
                        offers'[id].description_file_path = offers[id].description_file_path
                 /\ \A path \in DOMAIN files \ FilesOf(id) :
                        path \in DOMAIN files' /\ files'[path] = files[path]
                 /\ DOMAIN offers' = DOMAIN offers
                 /\ \A k \in DOMAIN offers \ {id} : offers'[k] = offers[k]
                 /\ offers'[id] = [offers[id] EXCEPT
                                      !.description_file_path = offers'[id].description_file_path,
                                      !.updated_at = offers'[id].updated_at]]_vars

\* a generated offer whose description was replaced: one file, the content of the last
\* upload, and the offer is still generated
C21_Witness ==
    /\ apiLast.kind = "upload"
    /\ apiLast.err = "ok"
    /\ apiLast.arg = <<"n", ".", "t", "x", "t">>
    /\ apiLast.id \in DOMAIN offers
    /\ offers[apiLast.id].status = "generated"
    /\ DOMAIN files = {DescriptionPath(apiLast.id)}
    /\ files[DescriptionPath(apiLast.id)] = "v2"

----------------------------------------------------------------------------
(* Status labels and status buttons *)

\* an offer as the views may receive it: Offer.status is a string; an offer that is not
\* a draft has gone through upload and generation
ReceivedOffer(id, status) ==
    IF status = "draft" THEN NewOffer(id, Payload(Acme, NULL, Q1, R1))
    ELSE [NewOffer(id, Payload(Acme, NULL, Q1, R1)) EXCEPT
             !.status = status,
             !.description_file_path = DescriptionPath(id),
             !.ai_generated_content = <<"fragment", id>>,
             !.document_path = <<"documents/offer_", id, ".pdf">>]

InitView ==
    /\ Quiet
    /\ \E status \in StatusStrings :
          /\ offers = [id \in {OfferIdSeq[1]} |-> ReceivedOffer(id, status)]
          /\ files = IF status = "draft" THEN << >>
                     ELSE [path \in {DescriptionPath(OfferIdSeq[1])} |-> "v1"]
    /\ created = [id \in {OfferIdSeq[1]} |-> Snapshot(Payload(Acme, NULL, Q1, R1))]
    /\ nextId = 2
    /\ crm_companies = {}
    /\ raynet = [r \in {R1} |-> Acme]
    /\ apiLast = NoLog
    /\ variant \in {"basic", "crm"}
    /\ route \in {"offers", "detail"}
    /\ offerId = OfferIdSeq[1]
    /\ mounted = FALSE
    /\ offer = NoBody
    /\ isLoading = TRUE
    /\ isGenerating = FALSE
    /\ isUploading = FALSE
    /\ isSendingToCrm = FALSE
    /\ calls = << >>
    /\ notified = "none"
    /\ NoCreateForm

NextView ==
    \/ fetchOffers
    \/ fetchOffersResolve
    \/ ServeList
    \/ Mount
    \/ fetchOfferResolve
    \/ handleStatusChange
    \/ handleStatusChangeResolve
    \/ handleGeneratePdf
    \/ handleGeneratePdfResolve
    \/ Serve
    \/ NetworkError

\* the list page or a detail page over an offer of any status string
SpecView == InitView /\ [][NextView]_vars

\* the edges of the status graph
StatusGraph == { <<"draft", "generated">>, <<"generated", "sent">>,
                 <<"sent", "accepted">>, <<"sent", "expired">> }

\* the label a view has to show for an offer
LabelFor(o) ==
    IF o.status \in STATUSES THEN STATUS_LABELS[o.status] ELSE STATUS_LABELS.draft

\* C22: the card of the list page and both detail pages show an offer of an unknown
\* status under the label of draft; a detail page renders no manual status button for
\* it and sends no status change; for a known status the page with the next-state list
\* renders exactly the successors of that status in the graph other than generated,
\* and the page with the CRM push renders no button outside them.
C22_UnknownStatusFallsBackToDraft ==
    /\ [](/\ CardsRendered => \A k \in 1..Len(list) : statusInfo(list[k]) = LabelFor(list[k])
          /\ Rendered =>
                /\ statusInfo(offer) = LabelFor(offer)
                /\ offer.status \notin STATUSES =>
                       /\ nextStatuses(offer) = {}
                       /\ StatusButtons(variant, offer) = {}
                       /\ ~ENABLED handleStatusChange
                /\ offer.status \in STATUSES =>
                       LET successors == {t \in STATUSES \ {"generated"} :
                                             <<offer.status, t>> \in StatusGraph}
                       IN /\ variant = "basic" => StatusButtons(variant, offer) = successors
                          /\ variant = "crm" => StatusButtons(variant, offer) \subseteq successors)
    /\ [][\A newStatus \in StatusStrings :
             calls' = Append(calls, Call("status", offerId, <<newStatus>>)) =>
                 /\ offer.status \in STATUSES
                 /\ newStatus # "generated"
                 /\ <<offer.status, newStatus>> \in StatusGraph]_vars

\* the detail page with the next-state list shows an offer of an unknown status: the
\* label of draft and no status button
C22_Witness ==
    /\ Rendered
    /\ variant = "basic"
    /\ offer.status \notin STATUSES
    /\ statusInfo(offer) = STATUS_LABELS.draft
    /\ StatusButtons(variant, offer) = {}
    /\ calls = << >>

----------------------------------------------------------------------------
(* Redux slice "offers" *)

\* state.offers = action.payload
setOffers(state, payload) == [state EXCEPT !.offers = payload]

\* state.currentOffer = action.payload
setCurrentOffer(state, payload) == [state EXCEPT !.currentOffer = payload]

\* state.isLoading = action.payload
setLoading(state, payload) == [state EXCEPT !.isLoading = payload]

\* state.error = action.payload
setError(state, payload) == [state EXCEPT !.error = payload]

\* state.offers = state.offers.filter((o) => o.id !== action.payload)
removeOffer(state, payload) == [state EXCEPT !.offers = withoutOffer(state.offers, payload)]

\* state.offers.findIndex((o) => o.id === id); 0 stands for -1
findIndex(rows, id) ==
    LET hits == {k \in 1..Len(rows) : rows[k].id = id}
    IN IF hits = {} THEN 0 ELSE CHOOSE k \in hits : \A j \in hits : k <= j

\* if (idx !== -1) state.offers[idx] = action.payload
updateOfferInList(state, payload) ==
    LET idx == findIndex(state.offers, payload.id)
    IN IF idx # 0 THEN [state EXCEPT !.offers[idx] = payload] ELSE state

\* the offers the pages dispatch: two ids, each as a draft and as a generated offer
SliceOffers == {ReceivedOffer(OfferIdSeq[i], status) : i \in 1..2, status \in {"draft", "generated"}}

\* the lists a page dispatches to setOffers
RECURSIVE SliceLists(_)
SliceLists(n) ==
    IF n = 0 THEN { << >> }
    ELSE SliceLists(n - 1) \cup {Append(q, o) : q \in SliceLists(n - 1), o \in SliceOffers}

\* dispatch of an action: the reducer named by its type gives the next state
Dispatch(type, payload, next) ==
    /\ offersSlice' = [state |-> next, action |-> [type |-> type, payload |-> payload]]
    /\ UNCHANGED <<service, page, createForm, now, cap, crmSide, listPage, lookup>>

DispatchSetOffers ==
    \E payload \in SliceLists(MaxListed) :
        Dispatch("setOffers", [list |-> payload], setOffers(offersSlice.state, payload))

DispatchSetCurrentOffer ==
    \E payload \in SliceOffers \cup {NoBody} :
        Dispatch("setCurrentOffer", [offer |-> payload],
                 setCurrentOffer(offersSlice.state, payload))

DispatchSetLoading ==
    \E payload \in BOOLEAN :
        Dispatch("setLoading", [flag |-> payload], setLoading(offersSlice.state, payload))

DispatchSetError ==
    \E payload \in {NULL, <<"e">>} :
        Dispatch("setError", [text |-> payload], setError(offersSlice.state, payload))

DispatchRemoveOffer ==
    \E payload \in {OfferIdSeq[1], OfferIdSeq[2], UnknownId} :
        Dispatch("removeOffer", [id |-> payload], removeOffer(offersSlice.state, payload))

DispatchUpdateOfferInList ==
    \E payload \in SliceOffers :
        Dispatch("updateOfferInList", [offer |-> payload],
                 updateOfferInList(offersSlice.state, payload))

InitSlice == InitService

NextSlice ==
    \/ DispatchSetOffers
    \/ DispatchSetCurrentOffer
    \/ DispatchSetLoading
    \/ DispatchSetError
    \/ DispatchRemoveOffer
    \/ DispatchUpdateOfferInList

\* the slice under any sequence of its actions
SpecSlice == InitSlice /\ [][NextSlice]_vars

\* C23: after updateOfferInList(o) the list of the slice holds o at an entry of id o.id,
\* whether or not an offer of that id was in the list before; removeOffer(id) leaves
\* exactly the offers of another id, in their order.
C23_UpdateOfferInListUpserts ==
    /\ [](offersSlice.action.type = "updateOfferInList" =>
             \E k \in 1..Len(offersSlice.state.offers) :
                 offersSlice.state.offers[k] = offersSlice.action.payload.offer)
    /\ [][offersSlice'.action.type = "removeOffer" =>
             offersSlice'.state.offers =
                 SelectSeq(offersSlice.state.offers,
                           LAMBDA o : o.id # offersSlice'.action.payload.id)]_vars


----------------------------------------------------------------------------
(* Status and pipeline fields *)

\* an offer past draft has its description, its document and its AI content
PipelineFieldsSet(o) ==
    o.status \in {"generated", "sent", "accepted", "expired"} =>
        /\ o.description_file_path # NULL
        /\ o.document_path # NULL
        /\ o.ai_generated_content # NULL

\* C24: every stored offer, and every offer a detail page displays, whose status is
\* generated, sent, accepted or expired has description_file_path, document_path and
\* ai_generated_content set; an offer is created as a draft, and a draft stops being one
\* only in a step that has the effect of a successful generatePdf: it had a description
\* and comes out generated with a document and AI content.
C24_PastDraftHasDocument ==
    /\ [](/\ \A id \in DOMAIN offers : PipelineFieldsSet(offers[id])
          /\ offer # NoBody => PipelineFieldsSet(offer))
    /\ [][\A id \in DOMAIN offers' :
             /\ id \notin DOMAIN offers => offers'[id].status = "draft"
             /\ (/\ id \in DOMAIN offers
                 /\ offers[id].status = "draft"
                 /\ offers'[id].status # "draft") =>
                    /\ offers[id].description_file_path # NULL
                    /\ offers'[id].status = "generated"
                    /\ offers'[id].document_path # NULL
                    /\ offers'[id].ai_generated_content # NULL]_vars

\* the page shows an accepted offer, which has all three, next to a failed call
C24_Witness ==
    /\ Rendered
    /\ offer.status = "accepted"
    /\ offer.description_file_path # NULL
    /\ offer.document_path # NULL
    /\ offer.ai_generated_content # NULL
    /\ offerId \in DOMAIN offers
    /\ offers[offerId] = offer
    /\ notified = "error"

----------------------------------------------------------------------------
(* Create offer form over a mirror of two companies *)

R2 == <<"r", "2">>
P2 == <<"p", "2">>

\* the CRM holds two companies with one contact each, the mirror is synced, and the
\* title of the offer is typed in
InitContacts ==
    /\ now = 1
    /\ cap = MaxCalls + 1
    /\ offersSlice = [state |-> initialState, action |-> [type |-> "@@INIT"]]
    /\ offers = << >>
    /\ nextId = 1
    /\ files = << >>
    /\ raynet = [r \in {R1, R2} |-> IF r = R1 THEN Acme ELSE Beta]
    /\ raynetPeople = [r \in {P1, P2} |->
                          IF r = P1 THEN [company |-> R1, first_name |-> Ann]
                          ELSE [company |-> R2, first_name |-> Bo]]
    /\ crm_companies = sync({}, raynet)
    /\ crm_contacts = syncContacts({}, raynetPeople)
    /\ created = << >>
    /\ apiLast = NoLog
    /\ list = << >>
    /\ listLoading = TRUE
    /\ companies = << >>
    /\ contacts = << >>
    /\ lookups = << >>
    /\ formMounted = FALSE
    /\ variant = "crm"
    /\ route = "create"
    /\ offerId = UnknownId
    /\ mounted = FALSE
    /\ offer = NoBody
    /\ isLoading = TRUE
    /\ isGenerating = FALSE
    /\ isUploading = FALSE
    /\ isSendingToCrm = FALSE
    /\ calls = << >>
    /\ notified = "none"
    /\ form = [EmptyForm EXCEPT !.title = Q1]
    /\ descriptionFile = NoFile
    /\ isSubmitting = FALSE

NextContacts ==
    \/ loadCompanies
    \/ loadCompaniesResolve
    \/ handleCompanySelect
    \/ loadContactsResolve
    \/ handleContactSelect
    \/ ServeCrm
    \/ LookupNetworkError
    \/ handleSubmit
    \/ handleSubmitCreated
    \/ ServeCreate
    \/ NetworkError

\* the user of the create form picks companies and contacts without waiting
SpecContacts == InitContacts /\ [][NextContacts]_vars

\* C25: once no contacts request of the create form is outstanding, the contacts list
\* is empty when no company is selected and holds only contacts of the selected
\* company otherwise.
C25_ContactsFollowSelection ==
    (route = "create" /\ \A i \in 1..Len(lookups) : lookups[i].kind # "contacts") =>
        IF form.selectedCompanyId = Empty
        THEN contacts = << >>
        ELSE \A k \in 1..Len(contacts) : contacts[k].company_id = form.selectedCompanyId

\* the contact that payload p links is a contact of the company that p links
LinkageAgrees(p) ==
    p.raynet_contact_id # NULL =>
        \E contact \in crm_contacts, company \in crm_companies :
            /\ contact.raynet_id = p.raynet_contact_id
            /\ company.raynet_id = p.raynet_company_id
            /\ contact.company_id = company.id

\* C26: whatever companies and contacts were selected, switched or cleared, the payload
\* the create form would submit, and every payload it has submitted, links a contact
\* only together with the company that contact belongs to.
C26_LinkageIdsAgree ==
    /\ route = "create" => LinkageAgrees(SubmitPayload(form))
    /\ \A i \in 1..Len(calls) : calls[i].kind = "create" => LinkageAgrees(calls[i].arg[1])

----------------------------------------------------------------------------
(* Detail page: overlapping calls *)

\* C27: when a detail page has no call in flight, the offer it displays is the record
\* the Offer Service stores under that id.
C27_DisplayedOfferIsCurrent ==
    (route = "detail" /\ mounted /\ calls = << >>) =>
        /\ offer # NoBody
        /\ offerId \in DOMAIN offers
        /\ offer = offers[offerId]


----------------------------------------------------------------------------
(* In-flight flags *)

\* the create form with its required fields typed in, with or without a file chosen
InitSubmit ==
    /\ Quiet
    /\ offers = << >>
    /\ nextId = 1
    /\ files = << >>
    /\ crm_companies = {}
    /\ raynet = [r \in {R1} |-> Acme]
    /\ created = << >>
    /\ apiLast = NoLog
    /\ variant \in {"basic", "crm"}
    /\ route = "create"
    /\ offerId = UnknownId
    /\ mounted = FALSE
    /\ offer = NoBody
    /\ isLoading = TRUE
    /\ isGenerating = FALSE
    /\ isUploading = FALSE
    /\ isSendingToCrm = FALSE
    /\ calls = << >>
    /\ notified = "none"
    /\ form = [EmptyForm EXCEPT !.title = Q1, !.companyName = Acme]
    /\ descriptionFile \in {NoFile} \cup {f \in PageFiles : AllowedExtension(f.name)}
    /\ isSubmitting = FALSE

InitLive == InitPage \/ InitSubmit \/ InitList

\* the steps a user takes: nothing obliges the user to take one
Clicks ==
    \/ handleGeneratePdf
    \/ handleUploadDescription
    \/ handleSendToCrm
    \/ handleSubmit
    \/ fetchOffers

\* the steps of the Offer Service and of the network
Answers ==
    \/ Serve
    \/ ServeCreate
    \/ ServeList
    \/ NetworkError

\* the continuations of the handlers after their awaits
Resolves ==
    \/ fetchOfferResolve
    \/ handleGeneratePdfResolve
    \/ handleUploadDescriptionResolve
    \/ handleSendToCrmResolve
    \/ handleSubmitCreated
    \/ handleSubmitUploaded
    \/ fetchOffersResolve

NextLive ==
    \/ Mount
    \/ Clicks
    \/ Answers
    \/ Resolves

\* the oldest call in flight gets its response
AnswerOldest ==
    /\ calls # << >>
    /\ calls[1].phase = "req"
    /\ Answers
    /\ calls'[1].phase = "resp"

\* the handler that waits for the oldest call runs on
ResolveOldest ==
    /\ calls # << >>
    /\ calls[1].phase = "resp"
    /\ Resolves
    /\ \A j \in 2..Len(calls) : calls'[j - 1] = calls[j]

\* the mount effects of the detail page and of the list page
MountEffect == Mount \/ (~mounted /\ fetchOffers)

\* the pages with every call resolving in the end: React runs a mount effect, fetch()
\* settles, and a settled promise runs its continuation
SpecLive ==
    /\ InitLive
    /\ [][NextLive]_vars
    /\ WF_vars(MountEffect)
    /\ WF_vars(AnswerOldest)
    /\ WF_vars(ResolveOldest)

\* how many calls of the given kinds have their response and wait for their handler
Settled(q, kinds) == Cardinality({i \in 1..Len(q) : q[i].kind \in kinds /\ q[i].phase = "resp"})

\* the handler of a call of one of the kinds runs on in this step
Resumes(kinds) == Settled(calls', kinds) < Settled(calls, kinds)

\* handleSubmit goes on to its second await
SubmitGoesOn == \E i \in 1..Len(calls') : calls'[i].kind = "submitUpload" /\ calls'[i].phase = "req"

\* C28: the handler that resumes after its call, with a response or with an error,
\* sets its in-flight flag back to false; and when every call resolves, a flag that is
\* true becomes false again, on the detail page, the create form and the list page.
C28_FlagsComeBack ==
    /\ [][/\ Resumes({"fetch"}) => ~isLoading'
          /\ Resumes({"generate"}) => ~isGenerating'
          /\ Resumes({"upload"}) => ~isUploading'
          /\ Resumes({"send"}) => ~isSendingToCrm'
          /\ (Resumes({"create", "submitUpload"}) /\ ~SubmitGoesOn) => ~isSubmitting'
          /\ Resumes({"list"}) => ~listLoading']_vars
    /\ (route = "detail" /\ isLoading) ~> ~isLoading
    /\ isGenerating ~> ~isGenerating
    /\ isUploading ~> ~isUploading
    /\ isSendingToCrm ~> ~isSendingToCrm
    /\ isSubmitting ~> ~isSubmitting
    /\ (route = "offers" /\ listLoading) ~> ~listLoading

\* the upload of a submission has failed and the submit button is enabled again
C28_Witness ==
    /\ route = "create"
    /\ notified = "error"
    /\ descriptionFile # NoFile
    /\ offers # << >>
    /\ ~isSubmitting
    /\ calls = << >>

----------------------------------------------------------------------------
(* Create offer form: how a submission ends *)

\* handleSubmit ends in this step: the handler of call i resumes and awaits no more
SubmitEnds(i) ==
    /\ route = "create"
    /\ calls[i].kind \in {"create", "submitUpload"}
    /\ calls[i].phase = "resp"
    /\ calls' = Remove(calls, i)

\* the ids of the offers the store holds that call i of a submission has created
CreatedBy(i) ==
    IF calls[i].kind = "submitUpload" THEN {calls[i].id} \cap DOMAIN offers'
    ELSE IF calls[i].err = "ok" THEN {calls[i].ret.id} \cap DOMAIN offers'
    ELSE {}

\* C29: a submission of the create form that ends with an error notification has left no
\* new offer in the Offer Store, and it ends on the detail page of the new offer exactly
\* when the create call and, with a file chosen, the upload call have succeeded.
C29_SubmitAllOrNothing ==
    [][\A i \in 1..Len(calls) :
          SubmitEnds(i) =>
              /\ notified' = "error" => CreatedBy(i) = {}
              /\ route' = "detail" <=> calls[i].err = "ok"
              /\ route' = "detail" => offerId' \in CreatedBy(i)]_vars
====
